---- MODULE Spec2Model ----
(***************************************************************************)
(* A model of qualifier_engine.py: the normalizers and rule classifiers,   *)
(* the caches, the scoring and decision functions, the rate-limited oracle *)
(* wrapper and the resumable batch processor.                              *)
(*                                                                         *)
(* Text the code matches by substring is a sequence of one-character       *)
(* strings, so "ui" is <<"u","i">>.  Text the code only compares for       *)
(* equality (range labels, buckets, decisions) is a TLA+ string.           *)
(***************************************************************************)
EXTENDS Integers, Sequences, FiniteSets, TLC

(***************************************************************************)
(* Characters and the str methods the code uses.                           *)
(***************************************************************************)
UpperChars == <<"A","B","C","D","E","F","G","H","I","J","K","L","M","N","O","P","Q","R","S","T","U","V","W","X","Y","Z">>
LowerChars == <<"a","b","c","d","e","f","g","h","i","j","k","l","m","n","o","p","q","r","s","t","u","v","w","x","y","z">>
DigitChars == <<"0","1","2","3","4","5","6","7","8","9">>

Range(f) == { f[i] : i \in DOMAIN f }
UpperSet == Range(UpperChars)
LowerSet == Range(LowerChars)
DigitSet == Range(DigitChars)

\* str.lower() on one character
LowerOf == [c \in UpperSet |-> LowerChars[CHOOSE i \in DOMAIN UpperChars : UpperChars[i] = c]]
LowerChar(c) == IF c \in UpperSet THEN LowerOf[c] ELSE c

\* str.lower()
Lower(s) == [i \in DOMAIN s |-> LowerChar(s[i])]

\* \s of the re module, on the characters the model uses
SpaceSet == {" ", "\t", "\n"}
IsSpace(c) == c \in SpaceSet

\* \w of the re module: letters, digits and the underscore
WordSet == UpperSet \cup LowerSet \cup DigitSet \cup {"_"}
IsWordChar(c) == c \in WordSet

\* the class [a-z0-9 ] of normalize_title
LowerAlnumBlankSet == LowerSet \cup DigitSet \cup {" "}
IsLowerAlnumOrBlank(c) == c \in LowerAlnumBlankSet

RECURSIVE LStrip(_)
LStrip(s) == IF s # <<>> /\ IsSpace(Head(s)) THEN LStrip(Tail(s)) ELSE s

RECURSIVE RStrip(_)
RStrip(s) == IF s # <<>> /\ IsSpace(s[Len(s)]) THEN RStrip(SubSeq(s, 1, Len(s) - 1)) ELSE s

\* str.strip()
Strip(s) == RStrip(LStrip(s))

\* Python's `sub in s` on strings
Contains(sub, s) ==
    \E i \in 0..(Len(s) - Len(sub)) : SubSeq(s, i + 1, i + Len(sub)) = sub

\* re.sub(r"\s+", " ", s): every run of whitespace becomes one blank
RECURSIVE CollapseWs(_)
CollapseWs(s) ==
    IF s = <<>> THEN <<>>
    ELSE IF IsSpace(Head(s))
         THEN <<" ">> \o CollapseWs(LStrip(s))
         ELSE <<Head(s)>> \o CollapseWs(Tail(s))

\* the alternatives of the pattern \b(senior|sr|...)\b in normalize_title
SeniorityWords ==
    { <<"s","e","n","i","o","r">>,
      <<"s","r">>,
      <<"l","e","a","d">>,
      <<"p","r","i","n","c","i","p","a","l">>,
      <<"i","i">>,
      <<"i","i","i">>,
      <<"i","v">>,
      <<"j","r">>,
      <<"j","u","n","i","o","r">>,
      <<"m","i","d">>,
      <<"i","n","t","e","r","n">>,
      <<"i","n","t","e","r","n","s","h","i","p">> }

\* the last index of the run of \w characters that starts at i
RECURSIVE WordEnd(_, _)
WordEnd(s, i) ==
    IF i < Len(s) /\ IsWordChar(s[i + 1]) THEN WordEnd(s, i + 1) ELSE i

\* re.sub(r"\b(senior|...)\b", "", s) from index i on: a match starts and ends at
\* a word boundary, so it is a whole run of \w characters that equals an alternative
RECURSIVE RemoveSeniority(_, _)
RemoveSeniority(s, i) ==
    IF i > Len(s) THEN <<>>
    ELSE IF IsWordChar(s[i])
         THEN LET j == WordEnd(s, i)
                  w == SubSeq(s, i, j)
              IN  (IF w \in SeniorityWords THEN <<>> ELSE w) \o RemoveSeniority(s, j + 1)
         ELSE <<s[i]>> \o RemoveSeniority(s, i + 1)

normalize_title(title) ==
    IF title = <<>> THEN <<>>
    ELSE LET t1 == Lower(title)
             t2 == RemoveSeniority(t1, 1)
             t3 == [i \in DOMAIN t2 |-> IF IsLowerAlnumOrBlank(t2[i]) THEN t2[i] ELSE " "]
         IN  Strip(CollapseWs(t3))

\* the keywords of is_game_role
GameKeywords ==
    { <<"g","a","m","e">>,
      <<"u","n","r","e","a","l">>,
      <<"u","n","i","t","y">>,
      <<"g","a","m","e","p","l","a","y">>,
      <<"d","e","s","i","g","n","e","r">>,
      <<"p","r","o","d","u","c","e","r">>,
      <<"3","d">>,
      <<"2","d">>,
      <<"a","r","t","i","s","t">>,
      <<"u","i">>,
      <<"u","x">>,
      <<"v","f","x">>,
      <<"f","x">>,
      <<"a","n","i","m","a","t","o","r">>,
      <<"r","e","n","d","e","r">>,
      <<"g","r","a","p","h","i","c","s">>,
      <<"e","n","g","i","n","e">>,
      <<"e","n","g","i","n","e","e","r">>,
      <<"t","o","o","l","s">>,
      <<"r","i","g">>,
      <<"r","i","g","g","i","n","g">>,
      <<"t","e","c","h","n","i","c","a","l"," ","a","r","t">>,
      <<"l","i","g","h","t","i","n","g">>,
      <<"a","n","i","m","a","t","i","o","n">>,
      <<"p","i","p","e","l","i","n","e">>,
      <<"c","o","n","c","e","p","t">>,
      <<"l","e","v","e","l">>,
      <<"n","a","r","r","a","t","i","v","e">>,
      <<"t","e","c","h","n","i","c","a","l"," ","a","n","i","m","a","t","o","r">>,
      <<"t","e","c","h","n","i","c","a","l"," ","a","r","t","i","s","t">> }

is_game_role(title) ==
    LET t == normalize_title(title)
    IN  \E k \in GameKeywords : Contains(k, t)

\* DEFAULT_SERVICE_MAPPING, in the order the dict holds its keys
SERVICE_MAPPING ==
    << [key |-> <<"a","n","i","m","a","t","i","o","n">>, detailed |-> "Animation", bucket |-> "Art"],
       [key |-> <<"a","n","i","m","a","t","o","r">>, detailed |-> "Animation", bucket |-> "Art"],
       [key |-> <<"v","f","x">>, detailed |-> "VFX", bucket |-> "Art"],
       [key |-> <<"t","e","c","h","n","i","c","a","l"," ","a","r","t","i","s","t">>, detailed |-> "Technical Art", bucket |-> "Art"],
       [key |-> <<"t","e","c","h","n","i","c","a","l"," ","a","n","i","m","a","t","o","r">>, detailed |-> "Technical Animation", bucket |-> "Art"],
       [key |-> <<"e","n","g","i","n","e","e","r">>, detailed |-> "Programming", bucket |-> "Co-Dev"],
       [key |-> <<"p","r","o","g","r","a","m","m","e","r">>, detailed |-> "Programming", bucket |-> "Co-Dev"],
       [key |-> <<"e","n","g","i","n","e"," ","p","r","o","g","r","a","m","m","e","r">>, detailed |-> "Programming", bucket |-> "Co-Dev"],
       [key |-> <<"t","o","o","l","s">>, detailed |-> "Programming Tools", bucket |-> "Co-Dev"],
       [key |-> <<"p","r","o","d","u","c","e","r">>, detailed |-> "Game Production", bucket |-> "Full"],
       [key |-> <<"l","e","v","e","l"," ","d","e","s","i","g","n","e","r">>, detailed |-> "Game Production", bucket |-> "Full"],
       [key |-> <<"d","e","s","i","g","n">>, detailed |-> "Game Development", bucket |-> "Full"],
       [key |-> <<"u","i">>, detailed |-> "UI/UX", bucket |-> "Art"],
       [key |-> <<"u","x">>, detailed |-> "UI/UX", bucket |-> "Art"],
       [key |-> <<"r","e","n","d","e","r">>, detailed |-> "Rendering", bucket |-> "Co-Dev"],
       [key |-> <<"r","i","g">>, detailed |-> "Rigging", bucket |-> "Art"] >>

\* the keys of DEFAULT_REGION_MAPPING, lowercased
GOOD_REGIONS ==
    { <<"u","n","i","t","e","d"," ","s","t","a","t","e","s">>,
      <<"c","a","n","a","d","a">>,
      <<"f","r","a","n","c","e">>,
      <<"u","k">>,
      <<"g","e","r","m","a","n","y">>,
      <<"j","a","p","a","n">>,
      <<"c","h","i","n","a">>,
      <<"f","i","n","l","a","n","d">>,
      <<"s","w","e","d","e","n">>,
      <<"p","o","l","a","n","d">>,
      <<"a","u","s","t","r","a","l","i","a">>,
      <<"s","i","n","g","a","p","o","r","e">>,
      <<"i","n","d","i","a">> }

\* INDUSTRY_MAPPING["trusted_game_companies"]
TrustedGameCompanies ==
    { <<"u","b","i","s","o","f","t">>,
      <<"e","p","i","c"," ","g","a","m","e","s">>,
      <<"r","i","o","t"," ","g","a","m","e","s">>,
      <<"c","d"," ","p","r","o","j","e","k","t"," ","r","e","d">>,
      <<"b","e","t","h","e","s","d","a">>,
      <<"a","c","t","i","v","i","s","i","o","n">>,
      <<"b","l","i","z","z","a","r","d">>,
      <<"r","e","s","p","a","w","n">>,
      <<"n","a","u","g","h","t","y"," ","d","o","g">>,
      <<"t","a","k","e","-","t","w","o">>,
      <<"s","q","u","a","r","e"," ","e","n","i","x">>,
      <<"n","i","n","t","e","n","d","o">>,
      <<"p","l","a","y","s","t","a","t","i","o","n">>,
      <<"s","c","o","p","e","l","y">>,
      <<"k","e","y","w","o","r","d","s"," ","s","t","u","d","i","o","s">>,
      <<"g","a","m","e","l","o","f","t">>,
      <<"s","u","p","e","r","c","e","l","l">>,
      <<"b","e","h","a","v","i","o","u","r"," ","i","n","t","e","r","a","c","t","i","v","e">>,
      <<"d","i","c","e","s">>,
      <<"i","n","s","o","m","n","i","a","c">>,
      <<"r","o","c","k","s","t","a","r">>,
      <<"e","a">>,
      <<"s","o","n","y">>,
      <<"k","o","n","a","m","i">>,
      <<"r","e","m","e","d","y">> }

\* INDUSTRY_MAPPING["forced_non_gaming"]
ForcedNonGaming ==
    { <<"l","i","n","k","e","d","i","n">>,
      <<"t","c","s">>,
      <<"i","n","f","o","s","y","s">>,
      <<"d","e","l","o","i","t","t","e">>,
      <<"b","o","s","c","h">>,
      <<"w","a","l","m","a","r","t">>,
      <<"c","o","g","n","i","z","a","n","t">>,
      <<"a","c","c","e","n","t","u","r","e">>,
      <<"c","a","p","g","e","m","i","n","i">>,
      <<"h","c","l">> }

\* the name heuristics of detect_industry
GamingNameTokens ==
    { <<"g","a","m","e","s">>,
      <<"s","t","u","d","i","o">>,
      <<"i","n","t","e","r","a","c","t","i","v","e">>,
      <<"e","n","t","e","r","t","a","i","n","m","e","n","t">>,
      <<"g","a","m","e","d","e","v">>,
      <<"g","a","m","e">>,
      <<"p","l","a","y">>,
      <<"m","o","b","i","l","e">> }

(***************************************************************************)
(* Values that are not text.  A cell of a table read by pandas may hold    *)
(* NaN, and a JSON value returned by the oracle may be a number; both are  *)
(* kept apart from every text by a marker no character sequence equals.    *)
(***************************************************************************)
NaN == <<"<nan>">>
NumberValue == <<"<number>">>
IsText(v) == v \notin {NaN, NumberValue}

\* Python's None, where the code returns or stores it
None == [none |-> TRUE]

(***************************************************************************)
(* classify_service_rule: the mapping keys longest first; sorted() is      *)
(* stable, so keys of equal length keep the order of the dict.             *)
(***************************************************************************)
RuleHits(t) == { i \in DOMAIN SERVICE_MAPPING : Contains(SERVICE_MAPPING[i].key, t) }

FirstKeyWins(t) ==
    CHOOSE i \in RuleHits(t) : \A j \in RuleHits(t) : i <= j

LongestKeyWins(t) ==
    CHOOSE i \in RuleHits(t) :
        \A j \in RuleHits(t) :
            \/ Len(SERVICE_MAPPING[j].key) < Len(SERVICE_MAPPING[i].key)
            \/ Len(SERVICE_MAPPING[j].key) = Len(SERVICE_MAPPING[i].key) /\ i <= j

RuleChoice(t) == LongestKeyWins(t)

classify_service_rule(title) ==
    LET t == normalize_title(title)
    IN  IF RuleHits(t) = {} THEN None
        ELSE LET val == SERVICE_MAPPING[RuleChoice(t)]
             IN  [detailed_service |-> val.detailed, service_bucket |-> val.bucket]

(***************************************************************************)
(* Scoring.  A score is counted in hundredths of a point: the code divides *)
(* the weighted sum by 100.0 and rounds to two decimals, which with whole  *)
(* weights loses nothing, so the float it returns is weighted_score / 100. *)
(***************************************************************************)
\* weights that put sixty of the hundred points on the two size signals
WeightsOnSize == [employees |-> 30, revenue |-> 30, region |-> 20, service |-> 10, industry |-> 10]

WEIGHTS == [employees |-> 25, revenue |-> 25, region |-> 20, service |-> 15, industry |-> 15]
SCORE_THRESHOLD == 75

\* score_employees without the full points of the two largest ranges
ScoreEmployeesFlat(emp_range) ==
    IF emp_range \in {"50-500", "500-5000", "5000-20000", ">20000"} THEN 60 ELSE 0

score_employees(emp_range) ==
    IF emp_range \in {"50-500", "500-5000"} THEN 60
    ELSE IF emp_range \in {"5000-20000", ">20000"} THEN 100
    ELSE 0

score_revenue(rev_range) ==
    IF rev_range \in {"50M-500M"} THEN 60
    ELSE IF rev_range \in {"500M-1B", ">1B"} THEN 100
    ELSE 0

\* `if not hq_country`, `hq or ""`: the empty text is the falsy value among
\* the headquarters the model draws
Falsy(hq) == hq = <<>>

InGoodRegion(text) == \E lower \in {Lower(text)} : \E r \in GOOD_REGIONS : Contains(r, lower)

\* hq_country.lower() raises AttributeError when the value is not a str
score_region(hq_country) ==
    IF Falsy(hq_country) THEN 0
    ELSE IF InGoodRegion(hq_country) THEN 100
    ELSE 0

score_service(bucket) == IF bucket \in {"Art", "Co-Dev", "Full"} THEN 100 ELSE 0

score_industry(ind_ok) == IF ind_ok THEN 100 ELSE 0

weighted_score(emp, rev, hq, bucket, industry_ok) ==
      score_employees(emp) * WEIGHTS.employees
    + score_revenue(rev) * WEIGHTS.revenue
    + score_region(hq) * WEIGHTS.region
    + score_service(bucket) * WEIGHTS.service
    + score_industry(industry_ok) * WEIGHTS.industry

\* the five checks of legacy_qualify, in order
LegacyChecks(bucket, hq, emp, rev, industry_pass) ==
    << emp \in {"50-500", "500-5000", "5000-20000", ">20000"},
       rev \in {"50M-500M", "500M-1B", ">1B"},
       InGoodRegion(IF Falsy(hq) THEN <<>> ELSE hq),
       bucket # "None",
       industry_pass >>

LegacyReasons(checks) ==
    << IF checks[1] THEN "employee size ok" ELSE "employee size too small",
       IF checks[2] THEN "revenue ok" ELSE "revenue too low",
       IF checks[3] THEN "region ok" ELSE "region outside ICP",
       IF checks[4] THEN "service relevant" ELSE "service mismatch",
       IF checks[5] THEN "gaming industry match" ELSE "not gaming industry" >>

\* the value of a set of one value: what a local variable holds once its
\* right-hand side has been evaluated
Only(S) == CHOOSE x \in S : TRUE

\* the verdict that leaves the industry check out
LegacyVerdictLax(checks) ==
    IF \A i \in 1..4 : checks[i]
    THEN [decision |-> "Qualified",
          reason |-> [kind |-> "matches ICP", reasons |-> LegacyReasons(checks)],
          confidence |-> 95]
    ELSE [decision |-> "Not Qualified",
          reason |-> [kind |-> "legacy reasons", reasons |-> LegacyReasons(checks)],
          confidence |-> 75]

\* lines 432-434: confidence is the number before the "%" sign; reason keeps
\* the template ("matches ICP" or the bare list) and the list
LegacyVerdict(checks) ==
    IF \A i \in 1..5 : checks[i]
    THEN [decision |-> "Qualified",
          reason |-> [kind |-> "matches ICP", reasons |-> LegacyReasons(checks)],
          confidence |-> 95]
    ELSE [decision |-> "Not Qualified",
          reason |-> [kind |-> "legacy reasons", reasons |-> LegacyReasons(checks)],
          confidence |-> 75]

legacy_qualify(company, bucket, detailed, hq, emp, rev, industry_pass) ==
    Only({ LegacyVerdict(checks) : checks \in {LegacyChecks(bucket, hq, emp, rev, industry_pass)} })

\* (hq or "").lower() in legacy_qualify raises when hq is a truthy non-str
DecideRaises(hq) == ~Falsy(hq) /\ ~IsText(hq)

\* the override taken only above the threshold
ReconcileStrict(threshold, legacy, score) ==
    IF legacy.decision = "Qualified"
    THEN [decision |-> legacy.decision, reason |-> legacy.reason,
          confidence |-> legacy.confidence, score |-> score]
    ELSE IF score > threshold * 100
    THEN [decision |-> "Qualified",
          reason |-> [kind |-> "passes weighted score", reasons |-> <<>>],
          confidence |-> score \div 100, score |-> score]
    ELSE [decision |-> legacy.decision, reason |-> legacy.reason,
          confidence |-> legacy.confidence, score |-> score]

\* lines 439-446 on the legacy verdict and the score; confidence is int(score)
Reconcile(threshold, legacy, score) ==
    IF legacy.decision = "Qualified"
    THEN [decision |-> legacy.decision, reason |-> legacy.reason,
          confidence |-> legacy.confidence, score |-> score]
    ELSE IF score >= threshold * 100
    THEN [decision |-> "Qualified",
          reason |-> [kind |-> "passes weighted score", reasons |-> <<>>],
          confidence |-> score \div 100, score |-> score]
    ELSE [decision |-> legacy.decision, reason |-> legacy.reason,
          confidence |-> legacy.confidence, score |-> score]

\* decide with the override taken only above the threshold
DecideStrict(threshold, company, bucket, detailed, hq, emp, rev, industry_pass) ==
    Only({ ReconcileStrict(threshold, legacy, score) :
               legacy \in {legacy_qualify(company, bucket, detailed, hq, emp, rev, industry_pass)},
               score \in {weighted_score(emp, rev, hq, bucket, industry_pass)} })

\* decide, with SCORE_THRESHOLD (read from the ICP rules) as `threshold`
decide(threshold, company, bucket, detailed, hq, emp, rev, industry_pass) ==
    Only({ Reconcile(threshold, legacy, score) :
               legacy \in {legacy_qualify(company, bucket, detailed, hq, emp, rev, industry_pass)},
               score \in {weighted_score(emp, rev, hq, bucket, industry_pass)} })

(***************************************************************************)
(* Dictionaries (the caches, TRUSTED_STATS) are functions from keys to     *)
(* values.  json.dumps followed by json.loads gives back an equal          *)
(* dictionary of strings, booleans and numbers, so a cache file holds the  *)
(* dictionary that was saved.                                              *)
(***************************************************************************)
EmptyDict == <<>>
Put(d, k, v) == [x \in (DOMAIN d) \cup {k} |-> IF x = k THEN v ELSE d[x]]

\* the default TRUSTED_STATS, written to the cache directory on first load
TRUSTED_STATS ==
    LET e1 == [k \in {<<"e","p","i","c"," ","g","a","m","e","s">>} |->
        [hq_country |-> <<"U","n","i","t","e","d"," ","S","t","a","t","e","s">>, employees |-> ">20000", revenue |-> ">1B"]]
        e2 == [k \in {<<"u","b","i","s","o","f","t">>} |->
        [hq_country |-> <<"F","r","a","n","c","e">>, employees |-> ">20000", revenue |-> ">1B"]]
        e3 == [k \in {<<"r","i","o","t"," ","g","a","m","e","s">>} |->
        [hq_country |-> <<"U","n","i","t","e","d"," ","S","t","a","t","e","s">>, employees |-> "5000-20000", revenue |-> ">1B"]]
        e4 == [k \in {<<"e","a">>} |->
        [hq_country |-> <<"U","n","i","t","e","d"," ","S","t","a","t","e","s">>, employees |-> ">20000", revenue |-> ">1B"]]
        e5 == [k \in {<<"c","d"," ","p","r","o","j","e","k","t"," ","r","e","d">>} |->
        [hq_country |-> <<"P","o","l","a","n","d">>, employees |-> "5000-20000", revenue |-> "500M-1B"]]
        keys == DOMAIN e1 \cup DOMAIN e2 \cup DOMAIN e3 \cup DOMAIN e4 \cup DOMAIN e5
    IN  [k \in keys |-> IF k \in DOMAIN e1 THEN e1[k] ELSE IF k \in DOMAIN e2 THEN e2[k] ELSE IF k \in DOMAIN e3 THEN e3[k] ELSE IF k \in DOMAIN e4 THEN e4[k] ELSE e5[k]]

(***************************************************************************)
(* The texts the model draws its inputs from.                              *)
(***************************************************************************)
\* rule hit "engineer"
T_UNREAL == <<"S","e","n","i","o","r"," ","U","n","r","e","a","l"," ","E","n","g","i","n","e","e","r"," ","I","I">>
\* rule hits "engine programmer" and "programmer"
T_ENGINE == <<"S","r","."," ","E","n","g","i","n","e"," ","P","r","o","g","r","a","m","m","e","r">>
\* a game role no mapping key matches
T_WRITER == <<"G","a","m","e"," ","W","r","i","t","e","r">>
\* fails is_game_role
T_ACCOUNTANT == <<"S","e","n","i","o","r"," ","A","c","c","o","u","n","t","a","n","t">>
\* in TRUSTED_STATS and in the trusted list
C_EPIC == <<"E","p","i","c"," ","G","a","m","e","s">>
\* known to the oracle only
C_ACME == <<"A","c","m","e"," ","C","o","r","p">>
\* the oracle gives it a headquarters that is not text
C_GLOBEX == <<"G","l","o","b","e","x">>
\* in the forced-exclusion list once lowercased and trimmed
C_TCS == <<" ","T","C","S">>
URL_1 == <<"u","1">>
URL_2 == <<"u","2">>
\* str(float('nan'))
NAN_STR == <<"n","a","n">>
\* the separator of an industry cache key
KEY_SEP == <<"|","|">>

Titles == {T_UNREAL, T_ENGINE, T_WRITER, T_ACCOUNTANT}
Companies == {C_EPIC, C_ACME, C_GLOBEX, C_TCS}

\* the rows a table is made of: cells as pandas holds them, NaN for a missing one
RowSamples ==
    { [company |-> C_EPIC,   title |-> T_UNREAL,     url |-> URL_1],
      [company |-> C_ACME,   title |-> T_WRITER,     url |-> URL_1],
      [company |-> C_GLOBEX, title |-> T_ENGINE,     url |-> URL_2],
      [company |-> C_TCS,    title |-> T_UNREAL,     url |-> <<>>],
      [company |-> <<>>,     title |-> T_WRITER,     url |-> URL_2],
      [company |-> NaN,      title |-> T_ACCOUNTANT, url |-> NaN] }

(***************************************************************************)
(* json.loads on a text.  A parsed value is a record named after its       *)
(* Python type: [dict |-> function from key texts to values, keys |-> the   *)
(* keys in the order of their insertion], [list |-> sequence of values],   *)
(* [str |-> text], [int |-> integer], [float |-> "nan", "inf" or "-inf"],  *)
(* [bool |-> boolean], and None for null.  The texts of the model hold no  *)
(* backslash and no number with a fraction or an exponent; a text          *)
(* json.loads rejects parses to JsonError.                                 *)
(***************************************************************************)
QUOTE == "\""
APOSTROPHE == "'"
NEWLINE == "\n"

JsonWsSet == {" ", "\t", "\n", "\r"}
\* {} and d[k] = v on a dict that keeps the order of insertion: a key that is
\* already there keeps its place
EmptyObject == [dict |-> EmptyDict, keys |-> <<>>]
PutOrdered(d, k, v) ==
    [dict |-> Put(d.dict, k, v),
     keys |-> IF k \in DOMAIN d.dict THEN d.keys ELSE Append(d.keys, k)]

JsonError == [ok |-> FALSE, val |-> None, at |-> 0]
JsonOk(val, at) == [ok |-> TRUE, val |-> val, at |-> at]

\* the first position from i on that holds no JSON whitespace
RECURSIVE SkipWs(_, _)
SkipWs(s, i) == IF i <= Len(s) /\ s[i] \in JsonWsSet THEN SkipWs(s, i + 1) ELSE i

\* the position of the quote that closes the string whose text starts at i;
\* 0 when there is none or a control character comes first
RECURSIVE StringEnd(_, _)
StringEnd(s, i) ==
    IF i > Len(s) \/ s[i] \in {"\t", "\n", "\r", "\\"} THEN 0
    ELSE IF s[i] = QUOTE THEN i
    ELSE StringEnd(s, i + 1)

\* the position after the digits that start at i
RECURSIVE DigitsEnd(_, _)
DigitsEnd(s, i) == IF i <= Len(s) /\ s[i] \in DigitSet THEN DigitsEnd(s, i + 1) ELSE i

DigitValue(c) == CHOOSE d \in 0..9 : DigitChars[d + 1] = c

RECURSIVE NumberOf(_)
NumberOf(digits) ==
    IF digits = <<>> THEN 0
    ELSE 10 * NumberOf(SubSeq(digits, 1, Len(digits) - 1)) + DigitValue(digits[Len(digits)])

\* an integer: "-"? ("0" | [1-9][0-9]*), the digits starting at position i
ParseInt(s, i, sign) ==
    LET e == DigitsEnd(s, i)
    IN  IF e = i THEN JsonError
        ELSE IF s[i] = "0" THEN JsonOk([int |-> 0], i + 1)
        ELSE JsonOk([int |-> sign * NumberOf(SubSeq(s, i, e - 1))], e)

StartsWith(s, i, word) == i + Len(word) - 1 <= Len(s) /\ SubSeq(s, i, i + Len(word) - 1) = word

RECURSIVE ParseValue(_, _)
RECURSIVE ParseMembers(_, _, _)
RECURSIVE ParseElements(_, _, _)

\* the value that starts at position i0, after whitespace
ParseValue(s, i0) ==
    LET i == SkipWs(s, i0)
    IN  IF i > Len(s) THEN JsonError
        ELSE IF s[i] = QUOTE
        THEN LET e == StringEnd(s, i + 1)
             IN  IF e = 0 THEN JsonError ELSE JsonOk([str |-> SubSeq(s, i + 1, e - 1)], e + 1)
        ELSE IF s[i] = "{"
        THEN LET j == SkipWs(s, i + 1)
             IN  IF j <= Len(s) /\ s[j] = "}" THEN JsonOk(EmptyObject, j + 1)
                 ELSE ParseMembers(s, j, EmptyObject)
        ELSE IF s[i] = "["
        THEN LET j == SkipWs(s, i + 1)
             IN  IF j <= Len(s) /\ s[j] = "]" THEN JsonOk([list |-> <<>>], j + 1)
                 ELSE ParseElements(s, j, <<>>)
        ELSE IF StartsWith(s, i, <<"N","a","N">>) THEN JsonOk([float |-> "nan"], i + 3)
        ELSE IF StartsWith(s, i, <<"I","n","f","i","n","i","t","y">>)
        THEN JsonOk([float |-> "inf"], i + 8)
        ELSE IF StartsWith(s, i, <<"-","I","n","f","i","n","i","t","y">>)
        THEN JsonOk([float |-> "-inf"], i + 9)
        ELSE IF s[i] = "-" THEN ParseInt(s, i + 1, -1)
        ELSE IF s[i] \in DigitSet THEN ParseInt(s, i, 1)
        ELSE IF StartsWith(s, i, <<"t","r","u","e">>) THEN JsonOk([bool |-> TRUE], i + 4)
        ELSE IF StartsWith(s, i, <<"f","a","l","s","e">>) THEN JsonOk([bool |-> FALSE], i + 5)
        ELSE IF StartsWith(s, i, <<"n","u","l","l">>) THEN JsonOk(None, i + 4)
        ELSE JsonError

\* the members of an object from the key at position i on; a key met twice
\* keeps its last value
ParseMembers(s, i, acc) ==
    IF i > Len(s) \/ s[i] # QUOTE THEN JsonError
    ELSE LET e == StringEnd(s, i + 1)
             c == SkipWs(s, e + 1)
         IN  IF e = 0 \/ c > Len(s) \/ s[c] # ":" THEN JsonError
             ELSE LET v == ParseValue(s, c + 1)
                      n == SkipWs(s, v.at)
                      more == PutOrdered(acc, SubSeq(s, i + 1, e - 1), v.val)
                  IN  IF ~v.ok \/ n > Len(s) THEN JsonError
                      ELSE IF s[n] = "}" THEN JsonOk(more, n + 1)
                      ELSE IF s[n] = "," THEN ParseMembers(s, SkipWs(s, n + 1), more)
                      ELSE JsonError

\* the elements of an array from the value at position i on
ParseElements(s, i, acc) ==
    LET v == ParseValue(s, i)
        n == SkipWs(s, v.at)
    IN  IF ~v.ok \/ n > Len(s) THEN JsonError
        ELSE IF s[n] = "]" THEN JsonOk([list |-> Append(acc, v.val)], n + 1)
        ELSE IF s[n] = "," THEN ParseElements(s, n + 1, Append(acc, v.val))
        ELSE JsonError

\* json.loads(text): one value, whitespace around it and nothing else
json_loads(text) ==
    LET v == ParseValue(text, 1)
    IN  IF v.ok /\ SkipWs(text, v.at) > Len(text) THEN v ELSE JsonError

(***************************************************************************)
(* repair_json: the direct parse, the parse of the match of \{[\s\S]*\}    *)
(* (from the first "{" to the last "}" of the text), and the parse of the  *)
(* whole text after the substitutions.                                     *)
(***************************************************************************)
Positions(s, c) == { i \in DOMAIN s : s[i] = c }
Least(S) == CHOOSE x \in S : \A y \in S : x <= y
Greatest(S) == CHOOSE x \in S : \A y \in S : x >= y

\* re.search(r"\{[\s\S]*\}", text): the match, or None
BraceMatch(text) ==
    IF Positions(text, "{") = {} \/ Positions(text, "}") = {} THEN None
    ELSE IF Least(Positions(text, "{")) > Greatest(Positions(text, "}")) THEN None
    ELSE [group |-> SubSeq(text, Least(Positions(text, "{")), Greatest(Positions(text, "}")))]

\* str.replace(old, new) from position `from` on: every occurrence of the
\* non-empty text old, left to right, without overlap
RECURSIVE ReplaceFrom(_, _, _, _)
ReplaceFrom(s, from, old, new) ==
    LET hits == { i \in from..(Len(s) - Len(old) + 1) : SubSeq(s, i, i + Len(old) - 1) = old }
    IN  IF hits = {} THEN SubSeq(s, from, Len(s))
        ELSE SubSeq(s, from, Least(hits) - 1) \o new
             \o ReplaceFrom(s, Least(hits) + Len(old), old, new)

Replace(s, old, new) == ReplaceFrom(s, 1, old, new)

\* line 194
Fixed(text) ==
    Strip(Replace(Replace(Replace(Replace(text, <<APOSTROPHE>>, <<QUOTE>>),
                                  <<NEWLINE>>, <<" ">>),
                          <<",", "}">>, <<"}">>),
                  <<",", " ", "]">>, <<"]">>))

repair_json(text) ==
    IF text = <<>> THEN None
    ELSE IF json_loads(text).ok THEN json_loads(text).val
    ELSE IF BraceMatch(text) # None /\ json_loads(BraceMatch(text).group).ok
    THEN json_loads(BraceMatch(text).group).val
    ELSE IF json_loads(Fixed(text)).ok THEN json_loads(Fixed(text)).val
    ELSE None

(***************************************************************************)
(* The oracle.  A reply to a JSON prompt is either text the repair chain   *)
(* parses to a value (parsed) or text it cannot parse; a reply to the      *)
(* yes/no prompt is its text (text).  The oracle answers a given prompt the same  *)
(* way each time it answers.  A parsed value is the mapping asked for or,  *)
(* for a reply that is a bare number, [int |-> n] as json.loads gives it.  *)
(***************************************************************************)
Unparseable == [unparseable |-> TRUE]
Parseable(v) == [parsed |-> v]

ClassifyReply(title) ==
    IF title = T_WRITER
    THEN Parseable([detailed_service |-> "Narrative Design", service_bucket |-> "Full"])
    ELSE Unparseable

CompanyReply(company) ==
    IF Strip(company) = C_ACME
    THEN Parseable([hq_country |-> <<"C","a","n","a","d","a">>, employees |-> "500-5000", revenue |-> "$50M-$500M"])
    ELSE IF Strip(company) = C_GLOBEX
    THEN Parseable([hq_country |-> NumberValue, employees |-> "50-500", revenue |-> "5M-50M"])
    ELSE IF Strip(company) = Strip(C_TCS)
    THEN Parseable([int |-> 7])
    ELSE Unparseable

IndustryReply(company) ==
    IF Strip(company) = C_ACME THEN [text |-> <<"Y","e","s",".">>]
    ELSE IF Strip(company) = C_GLOBEX THEN [text |-> <<"N","O">>]
    ELSE [text |-> <<"N","o",","," ","i","t"," ","d","o","e","s"," ","n","o","t",".">>]

\* repair_json on a reply of the oracle: None for no text and for text no step
\* can parse
Repaired(out) ==
    IF out = None \/ out = Unparseable THEN None ELSE out.parsed

(***************************************************************************)
(* The normalizers and rule classifiers are pure, so their values on the   *)
(* texts of the model are computed once and looked up afterwards; on any   *)
(* other text the operators are evaluated as written.                      *)
(***************************************************************************)
\* str(cell)
CellStr(cell) == IF cell = NaN THEN NAN_STR ELSE cell

TitleTexts == Titles \cup { Strip(CellStr(r.title)) : r \in RowSamples }
CompanyTexts == Companies \cup { Strip(CellStr(r.company)) : r \in RowSamples }

TitleFacts ==
    [t \in TitleTexts |-> [norm |-> normalize_title(t), game |-> is_game_role(t),
                           rule |-> classify_service_rule(t)]]

CompanyFacts ==
    [c \in CompanyTexts |->
        LET company_lower == Strip(Lower(c))
        IN  [lower |-> company_lower,
             forced |-> company_lower \in ForcedNonGaming,
             trusted |-> \E name \in TrustedGameCompanies : Contains(name, company_lower),
             token |-> \E k \in GamingNameTokens : Contains(k, company_lower)]]

NormTitle(t) == IF t \in TitleTexts THEN TitleFacts[t].norm ELSE normalize_title(t)
IsGameRole(t) == IF t \in TitleTexts THEN TitleFacts[t].game ELSE is_game_role(t)
RuleFor(t) == IF t \in TitleTexts THEN TitleFacts[t].rule ELSE classify_service_rule(t)
CompanyLower(c) == IF c \in CompanyTexts THEN CompanyFacts[c].lower ELSE Strip(Lower(c))
IsForcedNonGaming(c) ==
    IF c \in CompanyTexts THEN CompanyFacts[c].forced
    ELSE Strip(Lower(c)) \in ForcedNonGaming
IsTrustedCompany(c) ==
    IF c \in CompanyTexts THEN CompanyFacts[c].trusted
    ELSE \E name \in TrustedGameCompanies : Contains(name, Strip(Lower(c)))
HasGamingToken(c) ==
    IF c \in CompanyTexts THEN CompanyFacts[c].token
    ELSE \E k \in GamingNameTokens : Contains(k, Strip(Lower(c)))


(***************************************************************************)
(* State.                                                                  *)
(*   oracle          "unconfigured" (client is None), "answering" (every   *)
(*                   request succeeds), "failing" (every request raises)   *)
(*                   or "flaky" (the first two requests of a query raise)  *)
(*   threshold       SCORE_THRESHOLD as read from the ICP rules            *)
(*   df              the input table of process_dataframe                  *)
(*   classify_cache, company_cache, industry_cache   the module's caches   *)
(*   disk            the files: the three cache files, the checkpoint,     *)
(*                   the partial table and the final table, each as the    *)
(*                   load of it reads it                                   *)
(*   pc, pos, phase  where process_dataframe stands in the main thread     *)
(*   processed, results, seen_urls   its locals                            *)
(*   job             what each thread of the process is inside of: the     *)
(*                   operation (op), its arguments, the lookup it has come *)
(*                   to (at), where it stands (step: "wait" for the reply  *)
(*                   to a request, "write" with a file opened and not yet  *)
(*                   written, "ready" between two lookups, "pause" in a    *)
(*                   sleep), the text json.dumps made for the file (text), *)
(*                   and the values the lookups before have returned       *)
(*   arg             the cells of the row, or the arguments of the call,   *)
(*                   of the operation that began or ended last             *)
(*   asked           the prompts that operation gave rate_limited_groq     *)
(*   requests        the requests rate_limited_groq counted in this process*)
(*   outcome         how that operation ended, "begun" while it has not    *)
(*   ret             the value it returned if it was a call, none if it    *)
(*                   was a row or the start of a run                       *)
(*   calls           the calls of run_icp_engine_logic, run_qualification  *)
(*                   and the three lookups begun so far                    *)
(*   cache0          the caches and the checkpoint as the first process    *)
(*                   found them                                            *)
(*   oracle0         the oracle as the first process found it              *)
(*   crashes         process terminations so far                           *)
(*   clock           time.time() since the module was loaded, in           *)
(*                   twentieths of a second                                *)
(*   WINDOW_START, CALLS_IN_WINDOW, RATE_LOCK   the globals of the wrapper *)
(*   caller          where each thread inside rate_limited_groq stands     *)
(*   sent            the times of the requests sent in the last window     *)
(*   issued          requests sent so far                                  *)
(*   inputs, dec     the arguments and the result of a call of decide      *)
(*   fn_call, fn_result   a call of one of the module's functions on its   *)
(*                   own, and what it returned                             *)
(*   config_file     the file config/<name>.json of that call              *)
(*   failed          the runs and source indices of the rows whose         *)
(*                   processing raised, <<crashes, index>>                 *)
(***************************************************************************)
VARIABLES oracle, threshold, df, classify_cache, company_cache, industry_cache,
          disk, pc, pos, phase, processed, results, seen_urls, job,
          arg, asked, requests, outcome, ret, calls, cache0, crashes,
          clock, WINDOW_START, CALLS_IN_WINDOW, RATE_LOCK, caller, sent, issued,
          inputs, dec, fn_call, fn_result, config_file, failed, oracle0

engine_vars == <<df, classify_cache, company_cache, industry_cache,
                 disk, pc, pos, phase, processed, results, seen_urls, job,
                 arg, asked, requests, outcome, ret, calls, cache0, crashes, failed, oracle0>>

rate_vars == <<clock, WINDOW_START, CALLS_IN_WINDOW, RATE_LOCK, caller, sent, issued>>

decide_vars == <<inputs, dec>>

call_vars == <<fn_call, fn_result, config_file>>

vars == <<oracle, threshold, engine_vars, rate_vars, decide_vars, call_vars>>

\* `parsed and "key" in parsed` raises TypeError on a value that is truthy
\* and no container: a number that is not 0 (NaN and the infinities are
\* truthy) and True
KeyTestRaises(parsed) ==
    /\ parsed # None
    /\ \/ DOMAIN parsed = {"int"} /\ parsed.int # 0
       \/ DOMAIN parsed = {"float"}
       \/ DOMAIN parsed = {"bool"} /\ parsed.bool

\* a dict that holds every key the caller then tests with `in`
HasKeys(parsed, keys) == parsed # None /\ keys \subseteq DOMAIN parsed

DefaultService == [detailed_service |-> "Unknown", service_bucket |-> "None"]
DefaultCompany == [hq_country |-> <<"U","n","k","n","o","w","n">>,
                   employees |-> "Unknown", revenue |-> "Unknown"]

(***************************************************************************)
(* classify_service, get_company_info, detect_industry, up to the point    *)
(* where the lookup returns, stores or asks.  On the cache as it is, each   *)
(* gives what the lookup does next: it returns a value it found (Found),   *)
(* it stores a value under its key and rewrites the cache file (Fill; lit  *)
(* when the code then returns the value it stored and not cache[key]), it  *)
(* gives a prompt to rate_limited_groq (Query), or it raises (Raises).  An *)
(* industry flag b is carried as [flag |-> b].                              *)
(***************************************************************************)
Found(val) == [kind |-> "value", val |-> val]
Fill(key, val, lit) == [kind |-> "store", key |-> key, val |-> val, lit |-> lit]
Query(key, prompt) == [kind |-> "ask", key |-> key, prompt |-> prompt]
Raises == [kind |-> "raise"]

Flag(b) == [flag |-> b]

\* lines 297-301: the oracle's answer when it has both keys, the default otherwise
ClassifyByOracle(key, parsed) ==
    IF KeyTestRaises(parsed) THEN Raises
    ELSE Fill(key,
              IF HasKeys(parsed, {"detailed_service", "service_bucket"}) THEN parsed ELSE DefaultService,
              FALSE)

\* lines 283-296 with key and rule computed
ClassifyLookup(title, cache, key, rule) ==
    IF key \in DOMAIN cache THEN Found(cache[key])
    ELSE IF rule # None THEN Fill(key, rule, TRUE)
    ELSE Query(key, <<"classify", title>>)

classify_service(title, cache) ==
    ClassifyLookup(title, cache, NormTitle(title), RuleFor(title))

\* lines 319-323
CompanyByOracle(key, parsed) ==
    IF KeyTestRaises(parsed) THEN Raises
    ELSE Fill(key,
              IF HasKeys(parsed, {"hq_country", "employees", "revenue"}) THEN parsed ELSE DefaultCompany,
              FALSE)

\* the company cache before the trusted table
CompanyCacheFirst(company, cache, key) ==
    IF key \in DOMAIN cache THEN Found(cache[key])
    ELSE IF key \in DOMAIN TRUSTED_STATS THEN Found(TRUSTED_STATS[key])
    ELSE Query(key, <<"company", company>>)

\* lines 307-318 with key computed
CompanyLookup(company, cache, key) ==
    IF key \in DOMAIN TRUSTED_STATS THEN Found(TRUSTED_STATS[key])
    ELSE IF key \in DOMAIN cache THEN Found(cache[key])
    ELSE Query(key, <<"company", company>>)

\* line 306: company.lower() raises on a cell that is no text
get_company_info(company, cache) ==
    IF company = NaN THEN Raises
    ELSE CompanyLookup(company, cache, CompanyLower(company))

IndustryKey(company, title) == CompanyLower(company) \o KEY_SEP \o NormTitle(title)

\* `out and "yes" in out.lower()`
SaysYes(out) == out # None /\ Contains(<<"y","e","s">>, Lower(out.text))

\* lines 355-358
IndustryByOracle(key, out) == Fill(key, Flag(SaysYes(out)), FALSE)

\* lines 329-354 with key computed
IndustryLookup(company, cache, key) ==
    IF key \in DOMAIN cache THEN Found(Flag(cache[key]))
    ELSE IF IsForcedNonGaming(company) THEN Fill(key, Flag(FALSE), TRUE)
    ELSE IF IsTrustedCompany(company) THEN Fill(key, Flag(TRUE), TRUE)
    ELSE IF HasGamingToken(company) THEN Fill(key, Flag(TRUE), TRUE)
    ELSE Query(key, <<"industry", company>>)

detect_industry(company, title, cache) ==
    IndustryLookup(company, cache, IndustryKey(company, title))


(***************************************************************************)
(* The partial table.  DataFrame.to_csv writes a missing value as an empty *)
(* field; read_csv reads an empty field, and each text of its default list *)
(* of missing-value markers ("None" among them since pandas 2.0), as NaN.  *)
(* The texts and labels of the model are never all-numeric, so no column   *)
(* is read back as numbers.                                                *)
(***************************************************************************)
NaNLabel == "<nan>"

CsvNaTexts ==
    { <<>>,
      <<"#","N","/","A">>,
      <<"#","N","/","A"," ","N","/","A">>,
      <<"#","N","A">>,
      <<"-","1",".","#","I","N","D">>,
      <<"-","1",".","#","Q","N","A","N">>,
      <<"-","N","a","N">>,
      <<"-","n","a","n">>,
      <<"1",".","#","I","N","D">>,
      <<"1",".","#","Q","N","A","N">>,
      <<"<","N","A",">">>,
      <<"N","/","A">>,
      <<"N","A">>,
      <<"N","U","L","L">>,
      <<"N","a","N">>,
      <<"N","o","n","e">>,
      <<"n","/","a">>,
      <<"n","a","n">>,
      <<"n","u","l","l">> }

CsvNaLabels ==
    { "", "#N/A", "#N/A N/A", "#NA", "-1.#IND", "-1.#QNAN", "-NaN", "-nan", "1.#IND", "1.#QNAN", "<NA>", "N/A", "NA", "NULL", "NaN", "None", "n/a", "nan", "null" }

WriteText(v) == IF v = NaN THEN <<>> ELSE v
WriteLabel(v) == IF v = NaNLabel THEN "" ELSE v
ReadText(v) == IF v \in CsvNaTexts THEN NaN ELSE v
ReadLabel(v) == IF v \in CsvNaLabels THEN NaNLabel ELSE v

\* one row through to_csv
WriteRow(r) ==
    [r EXCEPT !.company = WriteText(@), !.title = WriteText(@), !.hq = WriteText(@),
              !.url = WriteText(@), !.detailed_service = WriteLabel(@),
              !.service_bucket = WriteLabel(@), !.employees = WriteLabel(@),
              !.revenue = WriteLabel(@), !.decision = WriteLabel(@)]

\* one row through read_csv and to_dict(orient="records")
ReadRow(r) ==
    [r EXCEPT !.company = ReadText(@), !.title = ReadText(@), !.hq = ReadText(@),
              !.url = ReadText(@), !.detailed_service = ReadLabel(@),
              !.service_bucket = ReadLabel(@), !.employees = ReadLabel(@),
              !.revenue = ReadLabel(@), !.decision = ReadLabel(@)]

to_csv(rows) == [exists |-> TRUE, rows |-> [i \in DOMAIN rows |-> WriteRow(rows[i])]]
read_csv(file) == [i \in DOMAIN file.rows |-> ReadRow(file.rows[i])]
NoTable == [exists |-> FALSE, rows |-> <<>>]

\* NaN in a column of numbers (_source_index, score, confidence): the cell
\* of a row whose line ends before that field (no index, score or confidence
\* is negative)
NaNNumber == -1

\* the columns of the table, in the order of the keys of rec (lines 505-510
\* and 517-525)
COLUMNS ==
    <<"company", "title", "detailed_service", "service_bucket", "hq", "employees",
      "revenue", "industry_match", "decision", "reason", "confidence", "score", "url",
      "source_index">>
Place(column) == CHOOSE i \in DOMAIN COLUMNS : COLUMNS[i] = column

\* what read_csv gives for a field the line of a row does not reach
Blank(column) ==
    IF column \in {"company", "title", "hq", "url"} THEN NaN
    ELSE IF column \in {"confidence", "score", "source_index"} THEN NaNNumber
    ELSE IF column = "reason" THEN [kind |-> NaNLabel, reasons |-> <<>>]
    ELSE NaNLabel

\* a row whose line ends after its first c fields
CutRow(r, c) == [column \in DOMAIN r |-> IF Place(column) <= c THEN r[column] ELSE Blank(column)]

\* PARTIAL_CSV when the process ends while to_csv is writing: k rows are
\* whole and the line of the next row ends after c of its fields.  With
\* c = 0 the file ends at the end of a line; with k = 0 and c = 0 it holds
\* the header at most and the read gives no row
TornTable(rows, k, c) ==
    [exists |-> TRUE,
     rows |-> [i \in 1..(IF c = 0 THEN k ELSE k + 1) |->
                 IF i = k + 1 THEN CutRow(WriteRow(rows[i]), c) ELSE WriteRow(rows[i])]]

\* the checkpoint file: {"processed_indices": [...], "last_saved": ...}
save_checkpoint(indices) == [exists |-> TRUE, processed_indices |-> indices]
NoCheckpoint == [exists |-> FALSE, processed_indices |-> {}]
load_checkpoint(file) == IF file.exists THEN file.processed_indices ELSE {}

(***************************************************************************)
(* The rows process_dataframe records.                                     *)
(***************************************************************************)
\* `if url` / `if r.get("url")`: NaN is truthy, the empty text is not
Truthy(v) == v # <<>>

NonGameRecord(company, title, url, idx) ==
    [company |-> company, title |-> title, detailed_service |-> "Non-Game Role",
     service_bucket |-> "None", hq |-> <<"U","n","k","n","o","w","n">>,
     employees |-> "Unknown", revenue |-> "Unknown", industry_match |-> FALSE,
     decision |-> "Not Qualified",
     reason |-> [kind |-> "Role not related to game development.", reasons |-> <<>>],
     confidence |-> 100, score |-> 0, url |-> url, source_index |-> idx]

FullRecord(company, title, url, idx, svc, info, industry_pass, d) ==
    [company |-> company, title |-> title, detailed_service |-> svc.detailed_service,
     service_bucket |-> svc.service_bucket, hq |-> info.hq_country,
     employees |-> info.employees, revenue |-> info.revenue,
     industry_match |-> industry_pass, decision |-> d.decision, reason |-> d.reason,
     confidence |-> d.confidence, score |-> d.score, url |-> url, source_index |-> idx]

\* results.append(rec); processed.add(idx); if url: seen_urls.add(url)
Record(m, rec, idx, url) ==
    [m EXCEPT !.results = Append(@, rec), !.processed = @ \cup {idx},
              !.seen_urls = IF Truthy(url) THEN @ \cup {url} ELSE @]

SeenBefore(url, seen) == Truthy(url) /\ url \in seen
NeverSeen(url, seen) == FALSE
IsDuplicate(url, seen) == SeenBefore(url, seen)

GateOpen(title) == TRUE
PassesGate(title) == IsGameRole(title)

\* str(row.get(...)).strip() on the three cells
Cells(row) ==
    [company |-> Strip(CellStr(row.company)), title |-> Strip(CellStr(row.title)),
     url |-> Strip(CellStr(row.url))]

(***************************************************************************)
(* Bounds of the model.                                                    *)
(***************************************************************************)
MaxRows == 2
MaxCrashes == 1
\* the calls of run_icp_engine_logic, run_qualification and the lookups the
\* processes make
MaxCalls == 2
\* the rows of the table of a process and the calls it makes, together: in
\* a process that makes calls only, and in one that runs the batch as well
MaxLoad == 3
MaxRunLoad == 2

SAVE_EVERY_N == 50

\* seconds as twentieths of a second
Ticks(seconds) == seconds * 20

\* line 542: the sleep after a recorded row, random.uniform(0.05, 0.15) s
PAUSE_MIN == 1
PAUSE_MAX == 3
RowPauses == {PAUSE_MIN, PAUSE_MAX}
\* line 631: time.sleep(0.05)
QUAL_PAUSE == 1

Tables == UNION { [1..n -> RowSamples] : n \in 0..MaxRows }

\* the files a process may find: none yet; cache entries written by an
\* earlier process under another mapping configuration or another oracle; or
\* the checkpoint of a run over a longer table whose first two rows raised
\* and whose rows after them, one short of SAVE_EVERY_N, were skipped
ColdCaches == [classify |-> EmptyDict, company |-> EmptyDict, industry |-> EmptyDict,
               checkpoint |-> NoCheckpoint]
StaleCaches ==
    [classify |-> Put(EmptyDict, NormTitle(T_UNREAL), DefaultService),
     company  |-> Put(Put(EmptyDict, Strip(Lower(C_ACME)),
                          [hq_country |-> <<"M","a","r","s">>, employees |-> "<10", revenue |-> "<5M"]),
                      Strip(Lower(C_EPIC)), DefaultCompany),
     industry |-> Put(EmptyDict, IndustryKey(C_TCS, T_UNREAL), TRUE),
     checkpoint |-> NoCheckpoint]
StaleCheckpoint == [ColdCaches EXCEPT !.checkpoint = save_checkpoint(2..SAVE_EVERY_N)]
Preloads == {ColdCaches, StaleCaches, StaleCheckpoint}

NoReturn == [kind |-> "none"]
NoArg == [company |-> <<>>, title |-> <<>>, url |-> <<>>]

\* the locals of process_dataframe
Locals == [processed |-> processed, results |-> results, seen_urls |-> seen_urls]

\* the locals at the start of a run that finds no checkpoint and no partial table
FreshLocals == [processed |-> {}, results |-> <<>>, seen_urls |-> {}]

\* the threads of a process: t1 is the main thread, which runs
\* process_dataframe (lines 638-646) or makes calls; t2 is a second thread,
\* as the one Streamlit gives a second session of the dashboard
\* (dashboard.py line 48)
Callers == {"t1", "t2"}
MainThread == "t1"

\* a thread inside no operation
NoJob ==
    [op |-> "none", step |-> "none", at |-> "none",
     company |-> <<>>, title |-> <<>>, url |-> <<>>,
     key |-> <<>>, val |-> None, lit |-> FALSE, text |-> EmptyDict,
     svc |-> None, info |-> None, ind |-> Flag(FALSE),
     asked |-> <<>>, i |-> 0, rows |-> <<>>, wake |-> 0]

\* the three lookups called on their own
Lookups == {"classify_service", "get_company_info", "detect_industry"}
StageOf(op) ==
    IF op = "classify_service" THEN "classify"
    ELSE IF op = "get_company_info" THEN "company"
    ELSE IF op = "detect_industry" THEN "industry"
    ELSE "classify"

\* a thread that enters operation op with the cells c
NewJob(op, c) ==
    [NoJob EXCEPT !.op = op, !.at = StageOf(op),
                  !.company = c.company, !.title = c.title, !.url = c.url]

\* the wrapper's globals as the module sets them, no thread inside it
NoOut == [out |-> "none"]
Outside == [pc |-> "idle", attempt |-> 0, wake |-> 0, sends |-> 0, out |-> NoOut]

RateAtRest ==
    /\ clock = 0
    /\ WINDOW_START = 0
    /\ CALLS_IN_WINDOW = 0
    /\ RATE_LOCK = "free"
    /\ caller = [t \in Callers |-> Outside]
    /\ sent = <<>>
    /\ issued = 0

NoInputs == [bucket |-> "None", hq |-> <<>>, emp |-> "Unknown", rev |-> "Unknown",
             industry_pass |-> FALSE]

DecideAtRest ==
    /\ inputs = NoInputs
    /\ dec = NoReturn

\* no function is called on its own
NoCall == [fn |-> "none"]
NoFile == [exists |-> FALSE, text |-> <<>>]

CallsAtRest ==
    /\ fn_call = NoCall
    /\ fn_result = NoReturn
    /\ config_file = NoFile

(***************************************************************************)
(* rate_limited_groq up to the request, in a process whose requests are    *)
(* few: the lock is free whenever a thread comes to it, because a thread   *)
(* holds it over a sleep only with the window exhausted.  Time is counted  *)
(* in twentieths of a second from the moment the module was loaded.        *)
(***************************************************************************)
WINDOW_SEC == 60
RPM_LIMIT == 28

\* whether the request of attempt `attempt` (0, 1, 2, 3) of a query succeeds
Succeeds(attempt) ==
    \/ oracle = "answering"
    \/ oracle = "flaky" /\ attempt >= 2

\* range(4): whether attempt `attempt` was the last one
ExhaustedLate(attempt) == attempt + 1 >= 5
Exhausted(attempt) == attempt + 1 >= 4

\* the requests of `history` less than a window before `now`
Recent(history, now) == SelectSeq(history, LAMBDA at : now - at < Ticks(WINDOW_SEC))

\* lines 216-219 on the globals start and count
WindowOf(start, count, now) ==
    IF now - start >= Ticks(WINDOW_SEC)
    THEN [start |-> now, calls |-> 0]
    ELSE [start |-> start, calls |-> count]

\* the clock and the globals of the wrapper, as one value
RateNow ==
    [clock |-> clock, start |-> WINDOW_START, calls |-> CALLS_IN_WINDOW,
     sent |-> sent, issued |-> issued]

\* lines 220-226: with the window exhausted the thread sleeps to its end,
\* 0.1 s more, and starts the next one; the request is counted
Counted(w, now, L) ==
    IF w.calls >= RPM_LIMIT
    THEN [L EXCEPT !.clock = now + Ticks(WINDOW_SEC) - (now - w.start) + 2,
                   !.start = now + Ticks(WINDOW_SEC) - (now - w.start) + 2,
                   !.calls = 1]
    ELSE [L EXCEPT !.start = w.start, !.calls = w.calls + 1]

\* line 228: the request goes out, at the time `now`
Requested(L, now) ==
    [L EXCEPT !.sent = Recent(Append(@, now), now), !.issued = @ + 1]

\* lines 215-228: the lock, the window, the count, the request
Asked(L) ==
    Only({ Requested(counted, counted.clock) :
               counted \in {Counted(WindowOf(L.start, L.calls, L.clock), L.clock, L)} })

\* the clock and the globals take the value L; the lock is free again
SetRate(L) ==
    /\ clock' = L.clock
    /\ WINDOW_START' = L.start
    /\ CALLS_IN_WINDOW' = L.calls
    /\ sent' = L.sent
    /\ issued' = L.issued
    /\ UNCHANGED <<RATE_LOCK, caller>>

(***************************************************************************)
(* A thread inside an operation.  The caches, the files and the globals of *)
(* the wrapper are shared by the threads (W); a thread runs until it has   *)
(* to wait: for the reply to a request (line 228; no lock is held), for    *)
(* the text to be in a file it has opened, or for the end of a sleep.      *)
(* What it did up to there is one step, and between two of its steps       *)
(* another thread may take steps of its own.                                *)
(*                                                                         *)
(* save_json (line 78) is path.write_text(json.dumps(obj)): the text is    *)
(* made from the dictionary as it is then, the file is opened, which       *)
(* empties it, and the text is written.  A file that was opened and holds  *)
(* no text, or a part of it, is one json.loads rejects: load_json reads    *)
(* {}.  When two threads have the same file open, each writes from the     *)
(* start of it: the text written last replaces the other up to its own     *)
(* end, and what is left of a longer one behind it makes the file one      *)
(* json.loads rejects.                                                     *)
(***************************************************************************)
World ==
    [classify |-> classify_cache, company |-> company_cache, industry |-> industry_cache,
     disk |-> disk, rate |-> RateNow, requests |-> requests]

\* the world of a process that has loaded the caches and made no request
FreshWorld(caches) ==
    [classify |-> caches.classify, company |-> caches.company, industry |-> caches.industry,
     disk |-> [classify |-> caches.classify, company |-> caches.company,
               industry |-> caches.industry, checkpoint |-> caches.checkpoint,
               partial |-> NoTable, output |-> NoTable],
     rate |-> [clock |-> 0, start |-> 0, calls |-> 0, sent |-> <<>>, issued |-> 0],
     requests |-> 0]

\* the value a cache holds for a flag or a mapping
Plain(at, val) == IF at = "industry" THEN val.flag ELSE val
Carried(at, entry) == IF at = "industry" THEN Flag(entry) ELSE entry

\* cache[key] = val
Store(cache, key, val) == Put(cache, key, val)
\* a file opened for writing holds nothing
Opened == EmptyDict

\* a save_json that opens the file and writes nothing
LeftOpen(file, text) == file

\* the file `file`, written from its start with the text of the dictionary
\* `text`: a file that holds a key the text has not holds the longer text
\* of another thread, whose end stays behind the text
Landed(file, text) ==
    IF \E k \in DOMAIN file : k \notin DOMAIN text THEN EmptyDict ELSE text

\* the lookup after the one at `at`: the next of the three, then decide; a
\* lookup called on its own returns to its caller
StageAfter(op, at) ==
    IF op \in Lookups THEN "return"
    ELSE IF at = "classify" THEN "company"
    ELSE IF at = "company" THEN "industry"
    ELSE "decide"

\* the lookup at j.at has returned val
Handed(j, val) ==
    [j EXCEPT !.svc = IF j.at = "classify" THEN val ELSE @,
              !.info = IF j.at = "company" THEN val ELSE @,
              !.ind = IF j.at = "industry" THEN val ELSE @,
              !.at = StageAfter(j.op, j.at),
              !.step = "none"]

\* the lookup the thread has come to, on the cache as it is
LookupAt(j, W) ==
    IF j.at = "classify" THEN classify_service(j.title, W.classify)
    ELSE IF j.at = "company" THEN get_company_info(j.company, W.company)
    ELSE detect_industry(j.company, j.title, W.industry)

\* the reply of the oracle to the prompt of the lookup
ReplyTo(j) ==
    IF j.at = "classify" THEN ClassifyReply(j.title)
    ELSE IF j.at = "company" THEN CompanyReply(j.company)
    ELSE IndustryReply(j.company)

\* lines 297-301, 319-323, 355-358: what the lookup does with the text `out`
\* of rate_limited_groq
Answered(at, key, out) ==
    IF at = "classify" THEN ClassifyByOracle(key, Repaired(out))
    ELSE IF at = "company" THEN CompanyByOracle(key, Repaired(out))
    ELSE IndustryByOracle(key, out)

\* The thread runs on from the lookup j.at (Advance), the lookup having come
\* to `look` (Taken).  end is "none" when the thread waits, "raised" when a
\* lookup raised, and "decide" or "return" when the lookups are through.
RECURSIVE Advance(_, _)
RECURSIVE Taken(_, _, _)
Taken(j, W, look) ==
    IF look.kind = "value" THEN Advance(Handed(j, look.val), W)
    ELSE IF look.kind = "raise" THEN [j |-> j, W |-> W, end |-> "raised"]
    ELSE IF look.kind = "store"
    THEN Only({ [j |-> [j EXCEPT !.step = "write", !.key = look.key, !.val = look.val,
                                 !.lit = look.lit, !.text = cache],
                 W |-> [W EXCEPT ![j.at] = cache, !.disk[j.at] = Opened],
                 end |-> "none"] :
                    cache \in {Store(W[j.at], look.key, Plain(j.at, look.val))} })
    ELSE IF oracle = "unconfigured"
    THEN \* lines 212-213: None at once
         Taken([j EXCEPT !.asked = Append(@, look.prompt)], W, Answered(j.at, look.key, None))
    ELSE [j |-> [j EXCEPT !.step = "wait", !.key = look.key, !.asked = Append(@, look.prompt)],
          W |-> [W EXCEPT !.rate = Asked(@), !.requests = @ + 1],
          end |-> "none"]

Advance(j, W) ==
    IF j.at \in {"classify", "company", "industry"}
    THEN Only({ Taken(j, W, look) : look \in {LookupAt(j, W)} })
    ELSE [j |-> j, W |-> W, end |-> j.at]

\* line 234: the reply to the request of the thread is there
Replied(j, W) == Taken(j, W, Answered(j.at, j.key, ReplyTo(j)))

\* the text is in the file, save_json has returned, and the lookup returns
\* the value it stored or cache[key]; the thread is about to enter the next
\* lookup ("ready"), or is through with them
Written(j, W) ==
    Only({ [j |-> IF after.at \in {"classify", "company", "industry"}
                  THEN [after EXCEPT !.step = "ready"] ELSE after,
            W |-> [W EXCEPT !.disk[j.at] = Landed(@, j.text)],
            end |-> IF after.at \in {"classify", "company", "industry"}
                    THEN "none" ELSE after.at] :
               after \in {Handed(j, IF j.lit THEN j.val
                                      ELSE Carried(j.at, W[j.at][j.key]))} })

\* the next step of a thread that waits
Resumed(j, W) ==
    IF j.step = "wait" THEN Replied(j, W)
    ELSE IF j.step = "write" THEN Written(j, W)
    ELSE Advance(j, W)

\* the operation carried through with no other thread about
RECURSIVE Through(_)
Through(r) == IF r.end # "none" THEN r ELSE Through(Resumed(r.j, r.W))

(***************************************************************************)
(* One pass of the body of the loop of process_dataframe over a row (its   *)
(* stripped cells, source index idx), on the locals m.  kind says how the  *)
(* row ended: "already" (index in processed), "invalid", "duplicate",      *)
(* "nongame", "classified" or "raised".                                    *)
(***************************************************************************)
\* the handler also adding the index of the row that raised to processed
EnrichMarkingRaised(j, idx, m, thr, end) ==
    IF end = "raised" \/ DecideRaises(j.info.hq_country)
    THEN [kind |-> "raised", m |-> [m EXCEPT !.processed = @ \cup {idx}]]
    ELSE [kind |-> "classified",
          m |-> Record(m, FullRecord(j.company, j.title, j.url, idx, j.svc, j.info, j.ind.flag,
                                     decide(thr, j.company, j.svc.service_bucket,
                                            j.svc.detailed_service, j.info.hq_country,
                                            j.info.employees, j.info.revenue, j.ind.flag)),
                       idx, j.url)]

\* lines 516-531: a lookup that raises ends the row before the lookups after
\* it run; decide raises on a headquarters that is neither falsy nor text,
\* after the three lookups have returned
Enrich(j, idx, m, thr, end) ==
    IF end = "raised" \/ DecideRaises(j.info.hq_country)
    THEN [kind |-> "raised", m |-> m]
    ELSE [kind |-> "classified",
          m |-> Record(m, FullRecord(j.company, j.title, j.url, idx, j.svc, j.info, j.ind.flag,
                                     decide(thr, j.company, j.svc.service_bucket,
                                            j.svc.detailed_service, j.info.hq_country,
                                            j.info.employees, j.info.revenue, j.ind.flag)),
                       idx, j.url)]

\* lines 482-514 on the stripped cells of the row: "enrich" for a row that
\* goes on to the lookups
VisitCells(company, title, url, idx, m) ==
    IF idx \in m.processed
    THEN [kind |-> "already", m |-> m]
    ELSE IF title = <<>> \/ company = <<>>
    THEN [kind |-> "invalid", m |-> [m EXCEPT !.processed = @ \cup {idx}]]
    ELSE IF IsDuplicate(url, m.seen_urls)
    THEN [kind |-> "duplicate", m |-> [m EXCEPT !.processed = @ \cup {idx}]]
    ELSE IF ~PassesGate(title)
    THEN [kind |-> "nongame", m |-> Record(m, NonGameRecord(company, title, url, idx), idx, url)]
    ELSE [kind |-> "enrich", m |-> m]

VisitRow(table, i, m) ==
    Only({ VisitCells(c.company, c.title, c.url, i - 1, m) : c \in {Cells(table[i])} })

(***************************************************************************)
(* Init: a process has loaded the module: the caches are read from their   *)
(* files, no partial table exists yet, and the checkpoint file is absent   *)
(* or left by an earlier run.                                              *)
(***************************************************************************)
Init ==
    /\ oracle \in {"unconfigured", "answering"}
    /\ threshold = SCORE_THRESHOLD
    /\ df \in Tables
    /\ oracle0 = oracle
    /\ cache0 \in Preloads
    /\ classify_cache = cache0.classify
    /\ company_cache = cache0.company
    /\ industry_cache = cache0.industry
    /\ disk = [classify |-> cache0.classify, company |-> cache0.company,
               industry |-> cache0.industry, checkpoint |-> cache0.checkpoint,
               partial |-> NoTable, output |-> NoTable]
    /\ pc = "idle"
    /\ pos = 0
    /\ phase = "none"
    /\ processed = {}
    /\ results = <<>>
    /\ seen_urls = {}
    /\ job = [t \in Callers |-> NoJob]
    /\ arg = NoArg
    /\ asked = <<>>
    /\ requests = 0
    /\ outcome = "loaded"
    /\ ret = NoReturn
    /\ calls = 0
    /\ crashes = 0
    /\ failed = {}
    /\ RateAtRest
    /\ DecideAtRest
    /\ CallsAtRest

\* the caches, the files, the count of requests and the globals of the
\* wrapper take the values of W
SetWorld(W) ==
    /\ classify_cache' = W.classify
    /\ company_cache' = W.company
    /\ industry_cache' = W.industry
    /\ disk' = W.disk
    /\ requests' = W.requests
    /\ SetRate(W.rate)

\* what no step of a thread changes
Rest == UNCHANGED <<oracle, threshold, df, cache0, oracle0, crashes, decide_vars, call_vars>>

\* process_dataframe stays where it is
RunStays == UNCHANGED <<pc, pos, phase, processed, results, seen_urls, failed>>

\* the caches, the files and the wrapper stay as they are
WorldStays ==
    UNCHANGED <<classify_cache, company_cache, industry_cache, disk, requests, rate_vars>>

\* the arguments of the operation the thread is inside of
ArgOf(j) ==
    IF j.op = "qual" THEN NoArg
    ELSE [company |-> j.company, title |-> j.title, url |-> j.url]

\* the operation of j has begun and waits, or goes on
Noted(began, j) ==
    IF began
    THEN /\ arg' = ArgOf(j)
         /\ asked' = j.asked
         /\ outcome' = "begun"
         /\ ret' = NoReturn
    ELSE UNCHANGED <<arg, asked, outcome, ret>>

\* the operation of j has ended
Ended(j, kind, value) ==
    /\ arg' = ArgOf(j)
    /\ asked' = j.asked
    /\ outcome' = kind
    /\ ret' = value

(***************************************************************************)
(* process_dataframe                                                       *)
(***************************************************************************)
\* lines 464-478: the checkpoint, then the partial table when it parses
\* (a table written without rows has no columns to parse)
\* line 475: astype(int) raises on a column that holds NaN
IndexColumnRaises(partial) == \E i \in DOMAIN partial : partial[i].source_index = NaNNumber

\* line 476: the URLs of the rows that have one
UrlsOf(rows) == { rows[i].url : i \in { j \in DOMAIN rows : Truthy(rows[j].url) } }

\* a resume that takes the processed set from the checkpoint alone
ResumeFromCheckpointOnly(partial) ==
    /\ results' = partial
    /\ processed' = load_checkpoint(disk.checkpoint)
    /\ seen_urls' = UrlsOf(partial)

\* the `except Exception: pass` of lines 477-478 leaves results as line 473
\* assigned it, and processed and seen_urls as they were before line 475
Resume(partial) ==
    /\ results' = partial
    /\ processed' = IF IndexColumnRaises(partial)
                    THEN load_checkpoint(disk.checkpoint)
                    ELSE load_checkpoint(disk.checkpoint)
                         \cup { partial[i].source_index : i \in DOMAIN partial }
    /\ seen_urls' = IF IndexColumnRaises(partial) THEN {} ELSE UrlsOf(partial)

Start ==
    /\ pc = "idle"
    /\ job[MainThread].op = "none"
    /\ Resume(IF disk.partial.exists THEN read_csv(disk.partial) ELSE <<>>)
    /\ pos' = 1
    /\ pc' = "loop"
    /\ phase' = "none"
    /\ arg' = NoArg
    /\ asked' = <<>>
    /\ outcome' = "started"
    /\ ret' = NoReturn
    /\ WorldStays
    /\ Rest
    /\ UNCHANGED <<job, calls, failed>>

\* line 533
SaveDue(done, total) == Cardinality(done) % SAVE_EVERY_N = 0 \/ Cardinality(done) = total

\* where a row leaves the loop body: the handler of lines 544-552 ("error"),
\* the save of lines 533-540 ("periodic"), or straight on ("none": the
\* `continue` of lines 485, 494 and 500 passes the save, and so does a row
\* that is not due)
\* the loop body without the handler's saves
RowExitUnsaved(kind, done, total) ==
    IF kind \in {"nongame", "classified"} /\ SaveDue(done, total) THEN "periodic" ELSE "none"

RowExit(kind, done, total) ==
    IF kind = "raised" THEN "error"
    ELSE IF kind \in {"nongame", "classified"} /\ SaveDue(done, total) THEN "periodic"
    ELSE "none"

\* the row the for loop of line 481 takes after row p
SameRow(p) == p
NextRow(p) == p + 1

\* the main thread in the sleep of line 542, until the time w
Sleeping(w) == [NoJob EXCEPT !.op = "row", !.step = "pause", !.wake = w]

\* the main thread writing one of the files of lines 534-538
Saving(at, text) == [NoJob EXCEPT !.op = "save", !.step = "write", !.at = at, !.text = text]

\* the pass over the row at pos is over: v.kind says how, v.m are the locals
\* after it.  A row that was recorded and is not due for a save is followed
\* by the sleep of line 542; the `continue` of lines 485, 494 and 500 goes to
\* the next row at once
RowEnds(v, j) ==
    /\ processed' = v.m.processed
    /\ results' = v.m.results
    /\ seen_urls' = v.m.seen_urls
    /\ Ended(j, v.kind, NoReturn)
    /\ phase' = RowExit(v.kind, v.m.processed, Len(df))
    /\ failed' = IF v.kind = "raised" THEN failed \cup {<<crashes, pos - 1>>} ELSE failed
    /\ IF phase' # "none"
       THEN /\ pc' = "csv"
            /\ pos' = pos
            /\ job' = [job EXCEPT ![MainThread] = NoJob]
       ELSE IF v.kind \in {"nongame", "classified"}
       THEN /\ pc' = "pause"
            /\ pos' = pos
            /\ \E d \in RowPauses : job' = [job EXCEPT ![MainThread] = Sleeping(clock' + d)]
       ELSE /\ pc' = "loop"
            /\ pos' = NextRow(pos)
            /\ job' = [job EXCEPT ![MainThread] = NoJob]

(***************************************************************************)
(* run_icp_engine_logic(company, title), run_qualification(df) and the     *)
(* three lookups, called by the main thread before or after its batch run, *)
(* or by the second thread at any time                                     *)
(***************************************************************************)
IcpResult(score, decision, reason, bucket, detailed, hq, emp, rev, ind, confidence) ==
    [kind |-> "returned", score |-> score, decision |-> decision, reason |-> reason,
     service_bucket |-> bucket, detailed_service |-> detailed, hq |-> hq,
     employees |-> emp, revenue |-> rev, industry_match |-> ind, confidence |-> confidence]

\* lines 579-590
IcpTuple(d, svc, info, ind) ==
    IcpResult(d.score, d.decision, d.reason, svc.service_bucket, svc.detailed_service,
              info.hq_country, info.employees, info.revenue, ind, d.confidence)

\* lines 568-577 up to the first wait; title.lower() of line 249 raises on a
\* cell that is no text
run_icp_engine_logic(j, W) ==
    IF j.title = NaN THEN [j |-> j, W |-> W, end |-> "raised"]
    ELSE IF ~PassesGate(j.title) THEN [j |-> j, W |-> W, end |-> "nongame"]
    ELSE Advance(j, W)

\* lines 570-574, 578-590: what run_icp_engine_logic returns at its end
IcpReturn(j, thr, end) ==
    IF end = "nongame"
    THEN IcpResult(0, "Not Qualified",
                   [kind |-> "Role not related to game development.", reasons |-> <<>>],
                   "None", "Non-Game Role", <<"U","n","k","n","o","w","n">>,
                   "Unknown", "Unknown", FALSE, 100)
    ELSE IF end = "raised" \/ DecideRaises(j.info.hq_country)
    THEN [kind |-> "raised"]
    ELSE IcpTuple(decide(thr, j.company, j.svc.service_bucket, j.svc.detailed_service,
                         j.info.hq_country, j.info.employees, j.info.revenue, j.ind.flag),
                  j.svc, j.info, j.ind.flag)

\* how the call ended
IcpKind(value, end) ==
    IF value.kind = "raised" THEN "raised"
    ELSE IF end = "nongame" THEN "nongame"
    ELSE "classified"

\* what a lookup called on its own returns
LookupReturn(j, end) ==
    IF end = "raised" THEN [kind |-> "raised"]
    ELSE [kind |-> "value",
          val |-> IF j.op = "classify_service" THEN j.svc
                  ELSE IF j.op = "get_company_info" THEN j.info
                  ELSE j.ind]

\* lines 610-625: the row of the table run_qualification returns, from the
\* cells as the table holds them and the tuple t of run_icp_engine_logic
QualRecord(row, idx, t) ==
    [company |-> row.company, title |-> row.title, detailed_service |-> t.detailed_service,
     service_bucket |-> t.service_bucket, hq |-> t.hq, employees |-> t.employees,
     revenue |-> t.revenue, industry_match |-> t.industry_match, decision |-> t.decision,
     reason |-> t.reason, confidence |-> t.confidence, score |-> t.score,
     url |-> row.url, source_index |-> idx]

\* lines 605-609: run_qualification comes to row j.i of the table; the
\* cells go to run_icp_engine_logic as the table holds them
run_qualification(j, table, W) ==
    run_icp_engine_logic([j EXCEPT !.company = table[j.i].company, !.title = table[j.i].title,
                                   !.url = table[j.i].url, !.at = "classify", !.step = "none",
                                   !.svc = None, !.info = None, !.ind = Flag(FALSE)], W)

\* the call of thread t has returned value, or has raised
CallEnds(t, j, kind, value) ==
    /\ job' = [job EXCEPT ![t] = NoJob]
    /\ Ended(j, kind, value)
    /\ RunStays

\* lines 609-631: run_icp_engine_logic has returned value for row j.i, or
\* has raised, which ends run_qualification; the row is appended and the
\* thread sleeps 0.05 s
QualTurn(t, j, value, began) ==
    IF value.kind = "raised"
    THEN CallEnds(t, j, "aborted", value)
    ELSE /\ job' = [job EXCEPT ![t] =
                      [j EXCEPT !.rows = Append(@, QualRecord(df[j.i], j.i - 1, value)),
                                !.step = "pause", !.at = "pause",
                                !.wake = clock' + QUAL_PAUSE]]
         /\ Noted(began, j)
         /\ RunStays

\* Thread t has run up to r: it waits (r.end is "none"), or its lookups are
\* through and the operation it is inside of goes on from them
Carry(t, r, began) ==
    /\ SetWorld(r.W)
    /\ Rest
    /\ IF r.end = "none"
       THEN /\ job' = [job EXCEPT ![t] = r.j]
            /\ Noted(began, r.j)
            /\ pc' = IF r.j.op = "row" THEN "row" ELSE pc
            /\ UNCHANGED <<pos, phase, processed, results, seen_urls, failed>>
       ELSE IF r.j.op = "row"
       THEN \E v \in {Enrich(r.j, pos - 1, Locals, threshold, r.end)} : RowEnds(v, r.j)
       ELSE IF r.j.op = "icp"
       THEN \E value \in {IcpReturn(r.j, threshold, r.end)} :
                CallEnds(t, r.j, IcpKind(value, r.end), value)
       ELSE IF r.j.op = "qual"
       THEN \E value \in {IcpReturn(r.j, threshold, r.end)} : QualTurn(t, r.j, value, began)
       ELSE CallEnds(t, r.j, IF r.end = "raised" THEN "lookup raised" ELSE "looked",
                     LookupReturn(r.j, r.end))

\* lines 481-531 for the row at pos, up to its end or to the first wait of
\* its lookups
Row ==
    /\ pc = "loop"
    /\ pos <= Len(df)
    /\ \E v \in {VisitRow(df, pos, Locals)}, j \in {NewJob("row", Cells(df[pos]))} :
           IF v.kind = "enrich"
           THEN \E r \in {Advance(j, World)} : Carry(MainThread, r, TRUE)
           ELSE /\ WorldStays
                /\ Rest
                /\ RowEnds(v, j)
    /\ UNCHANGED calls

\* line 234: the reply to the request of thread t is there
Reply(t) ==
    /\ job[t].step = "wait"
    /\ \E r \in {Replied(job[t], World)} : Carry(t, r, FALSE)
    /\ UNCHANGED calls

\* the text json.dumps made is in the file the lookup of thread t opened
Write(t) ==
    /\ job[t].step = "write"
    /\ job[t].op # "save"
    /\ \E r \in {Written(job[t], World)} : Carry(t, r, FALSE)
    /\ UNCHANGED calls

\* thread t enters the lookup after the one that has returned
Enter(t) ==
    /\ job[t].step = "ready"
    /\ \E r \in {Advance(job[t], World)} : Carry(t, r, FALSE)
    /\ UNCHANGED calls

\* the later of two times
Later(a, b) == IF a >= b THEN a ELSE b

\* line 542: the sleep after a row is over, the loop takes the next row
Pause ==
    /\ pc = "pause"
    /\ clock' = Later(clock, job[MainThread].wake)
    /\ pc' = "loop"
    /\ pos' = NextRow(pos)
    /\ job' = [job EXCEPT ![MainThread] = NoJob]
    /\ Rest
    /\ UNCHANGED <<classify_cache, company_cache, industry_cache, disk, requests,
                   WINDOW_START, CALLS_IN_WINDOW, RATE_LOCK, caller, sent, issued,
                   phase, processed, results, seen_urls, failed, arg, asked, outcome, ret, calls>>

\* lines 554-555: the loop is over, the final table is written
Finish ==
    /\ pc = "loop"
    /\ pos > Len(df)
    /\ disk' = [disk EXCEPT !.output = to_csv(results)]
    /\ pc' = "csv"
    /\ phase' = "final"
    /\ asked' = <<>>
    /\ outcome' = "finishing"
    /\ Rest
    /\ UNCHANGED <<classify_cache, company_cache, industry_cache, requests, rate_vars,
                   pos, processed, results, seen_urls, job, arg, ret, calls, failed>>

\* a file opened by to_csv or by save_checkpoint and not written yet:
\* read_csv raises on it, and load_json reads {}
OpenedTable == [exists |-> TRUE, rows |-> <<>>]
OpenedCheckpoint == [exists |-> TRUE, processed_indices |-> {}]

\* what a step of a save leaves as it is
SaveFrame ==
    /\ Rest
    /\ UNCHANGED <<classify_cache, company_cache, industry_cache, requests, rate_vars,
                   pos, phase, processed, results, seen_urls, arg, asked, outcome, ret,
                   calls, failed>>

\* lines 534, 547, 556: pd.DataFrame(results).to_csv(PARTIAL_CSV): the file
\* is opened, then the rows are in it
SavePartial ==
    /\ pc = "csv"
    /\ IF job[MainThread].step # "write"
       THEN /\ disk' = [disk EXCEPT !.partial = OpenedTable]
            /\ job' = [job EXCEPT ![MainThread] = Saving("partial", EmptyDict)]
            /\ pc' = pc
       ELSE /\ disk' = [disk EXCEPT !.partial = to_csv(results)]
            /\ job' = [job EXCEPT ![MainThread] = NoJob]
            /\ pc' = "ckpt"
    /\ SaveFrame

\* lines 535, 548, 557: save_checkpoint(list(processed))
SaveCheckpoint ==
    /\ pc = "ckpt"
    /\ IF job[MainThread].step # "write"
       THEN /\ disk' = [disk EXCEPT !.checkpoint = OpenedCheckpoint]
            /\ job' = [job EXCEPT ![MainThread] = Saving("checkpoint", EmptyDict)]
            /\ pc' = pc
       ELSE /\ disk' = [disk EXCEPT !.checkpoint = save_checkpoint(processed)]
            /\ job' = [job EXCEPT ![MainThread] = NoJob]
            /\ pc' = "caches"
    /\ SaveFrame

\* the cache file save_json writes after the file `at`, in the order of
\* lines 536-538
FileAfter(at) ==
    IF at = "none" THEN "company"
    ELSE IF at = "company" THEN "industry"
    ELSE IF at = "industry" THEN "classify"
    ELSE "none"

\* lines 536-538, 549-552, 558-562: the three cache files, each opened and
\* then written with the text of the cache as it was when save_json was
\* called; then the sleep of line 542 (after the save of a row that was
\* recorded), the next row (after the handler), or the return of final_df
\* (the rows of results)
SaveCaches ==
    /\ pc = "caches"
    /\ \E j \in {job[MainThread]} :
         IF j.step # "write"
         THEN \E at \in {FileAfter(j.at)} :
                /\ disk' = [disk EXCEPT ![at] = Opened]
                /\ job' = [job EXCEPT ![MainThread] = Saving(at, World[at])]
                /\ UNCHANGED <<pc, pos, phase, outcome, clock>>
         ELSE /\ disk' = [disk EXCEPT ![j.at] = Landed(@, j.text)]
              /\ clock' = clock
              /\ IF FileAfter(j.at) # "none"
                 THEN /\ job' = [job EXCEPT ![MainThread] = [j EXCEPT !.step = "none"]]
                      /\ UNCHANGED <<pc, pos, phase, outcome>>
                 ELSE /\ phase' = "none"
                      /\ IF phase = "final"
                         THEN /\ pc' = "done"
                              /\ pos' = pos
                              /\ outcome' = "returned"
                              /\ job' = [job EXCEPT ![MainThread] = NoJob]
                         ELSE IF phase = "periodic"
                         THEN /\ pc' = "pause"
                              /\ pos' = pos
                              /\ outcome' = outcome
                              /\ \E d \in RowPauses :
                                   job' = [job EXCEPT ![MainThread] = Sleeping(clock + d)]
                         ELSE /\ pc' = "loop"
                              /\ pos' = NextRow(pos)
                              /\ outcome' = outcome
                              /\ job' = [job EXCEPT ![MainThread] = NoJob]
    /\ Rest
    /\ UNCHANGED <<classify_cache, company_cache, industry_cache, requests,
                   WINDOW_START, CALLS_IN_WINDOW, RATE_LOCK, caller, sent, issued,
                   processed, results, seen_urls, arg, asked, ret, calls, failed>>

\* a new process loads the module on the files d: the caches are read from
\* their files, the globals of the wrapper are set (lines 203-205), and the
\* client is made from the API key the new process finds in its environment,
\* or is None when the key is no longer there
Reload(d) ==
    /\ crashes < MaxCrashes
    /\ crashes' = crashes + 1
    /\ disk' = d
    /\ oracle' \in {oracle, "unconfigured"}
    /\ classify_cache' = d.classify
    /\ company_cache' = d.company
    /\ industry_cache' = d.industry
    /\ pc' = "idle"
    /\ pos' = 0
    /\ phase' = "none"
    /\ processed' = {}
    /\ results' = <<>>
    /\ seen_urls' = {}
    /\ job' = [t \in Callers |-> NoJob]
    /\ arg' = NoArg
    /\ asked' = <<>>
    /\ requests' = 0
    /\ outcome' = "loaded"
    /\ ret' = NoReturn
    /\ clock' = 0
    /\ WINDOW_START' = 0
    /\ CALLS_IN_WINDOW' = 0
    /\ RATE_LOCK' = "free"
    /\ caller' = [t \in Callers |-> Outside]
    /\ sent' = <<>>
    /\ issued' = 0
    /\ UNCHANGED <<threshold, df, calls, cache0, oracle0, decide_vars, call_vars, failed>>

\* the process ends (a KeyboardInterrupt or a kill is not caught by the
\* handler of line 544) between two steps of its threads: inside a row or a
\* call, with a request out or with a file opened and not written, between
\* two lookups or two saves, or after a run or a call; a new process loads
\* the module on the files as they are
Crash ==
    /\ \/ pc # "idle"
       \/ ret # NoReturn
       \/ \E t \in Callers : job[t].op # "none"
    /\ Reload(disk)

\* the calls the model makes
IcpCalls ==
    { [company |-> C_TCS,    title |-> T_UNREAL,     url |-> <<>>],
      [company |-> C_EPIC,   title |-> T_ACCOUNTANT, url |-> <<>>],
      [company |-> C_EPIC,   title |-> T_ENGINE,     url |-> <<>>],
      [company |-> C_ACME,   title |-> T_WRITER,     url |-> <<>>],
      [company |-> C_GLOBEX, title |-> T_ENGINE,     url |-> <<>>] }

\* the calls of run_icp_engine_logic the second thread makes
ThreadCalls ==
    { [company |-> C_ACME,   title |-> T_WRITER, url |-> <<>>],
      [company |-> C_GLOBEX, title |-> T_ENGINE, url |-> <<>>] }

LookupCalls ==
    { [op |-> "classify_service", company |-> <<>>,   title |-> T_WRITER, url |-> <<>>],
      [op |-> "get_company_info", company |-> C_ACME, title |-> <<>>,     url |-> <<>>],
      [op |-> "detect_industry",  company |-> C_ACME, title |-> T_WRITER, url |-> <<>>] }

\* thread t is free to make a call: the main thread before its batch run or
\* after it, the second thread at any time
Free(t) ==
    /\ job[t].op = "none"
    /\ t = MainThread => pc \in {"idle", "done"}
    /\ calls < MaxCalls

\* thread t calls run_icp_engine_logic
RunIcp(t) ==
    /\ Free(t)
    /\ calls' = calls + 1
    /\ \E call \in IF t = MainThread THEN IcpCalls ELSE ThreadCalls :
         \E r \in {run_icp_engine_logic(NewJob("icp", call), World)} : Carry(t, r, TRUE)

\* thread t calls run_qualification on the table; a table without rows is
\* returned at once
RunQualification(t) ==
    /\ Free(t)
    /\ calls' = calls + 1
    /\ \E j \in {[NoJob EXCEPT !.op = "qual", !.i = 1]} :
         IF Len(df) = 0
         THEN /\ CallEnds(t, j, "table", [kind |-> "table", rows |-> <<>>])
              /\ WorldStays
              /\ Rest
         ELSE \E r \in {run_qualification(j, df, World)} : Carry(t, r, TRUE)

\* line 631: the sleep of thread t after a row of run_qualification is
\* over; the loop takes the next row, or the table is returned (line 633)
QualPause(t) ==
    /\ job[t].op = "qual"
    /\ job[t].step = "pause"
    /\ \E j \in {[job[t] EXCEPT !.i = @ + 1]},
          W \in {[World EXCEPT !.rate.clock = Later(@, job[t].wake)]} :
         IF j.i > Len(df)
         THEN /\ CallEnds(t, j, "table", [kind |-> "table", rows |-> j.rows])
              /\ SetWorld(W)
              /\ Rest
         ELSE \E r \in {run_qualification(j, df, W)} : Carry(t, r, FALSE)
    /\ UNCHANGED calls

\* thread t calls one of the three lookups on its own
Lookup(t) ==
    /\ Free(t)
    /\ calls' = calls + 1
    /\ \E call \in LookupCalls :
         \E r \in {Advance(NewJob(call.op, call), World)} : Carry(t, r, TRUE)

\* the process ends inside the to_csv of lines 534, 547 or 556, which has
\* written PARTIAL_CSV up to some row and that row up to one of its fields; a
\* new process loads the module
TornWrite ==
    /\ pc = "csv"
    /\ job[MainThread].step = "write"
    /\ \E k \in 0..(Len(results) - 1), c \in 0..(Len(COLUMNS) - 1) :
         Reload([disk EXCEPT !.partial = TornTable(results, k, c)])

\* the steps of a run of process_dataframe once it has started
RunStep ==
    \/ Row
    \/ Reply(MainThread)
    \/ Write(MainThread)
    \/ Enter(MainThread)
    \/ Pause
    \/ Finish
    \/ SavePartial
    \/ SaveCheckpoint
    \/ SaveCaches

Next ==
    \/ Start
    \/ Row
    \/ \E t \in Callers : Reply(t)
    \/ \E t \in Callers : Write(t)
    \/ \E t \in Callers : Enter(t)
    \/ Pause
    \/ Finish
    \/ SavePartial
    \/ SaveCheckpoint
    \/ SaveCaches
    \/ Crash
    \/ \E t \in Callers : RunIcp(t)
    \/ \E t \in Callers : RunQualification(t)
    \/ \E t \in Callers : QualPause(t)
    \/ \E t \in Callers : Lookup(t)

\* the program: a batch run in the main thread, calls from both threads, at
\* any moment of each other
Spec == Init /\ [][Next]_vars

\* the process of the command line (lines 638-646): process_dataframe in
\* its one thread, and no other call
NextRun ==
    \/ Start
    \/ Row
    \/ Reply(MainThread)
    \/ Write(MainThread)
    \/ Enter(MainThread)
    \/ Pause
    \/ Finish
    \/ SavePartial
    \/ SaveCheckpoint
    \/ SaveCaches
    \/ Crash

SpecRun == Init /\ [][NextRun]_vars

\* process_dataframe in processes that may end inside a write of the partial
\* table with a part of its rows written
NextTorn ==
    \/ Start
    \/ Row
    \/ Reply(MainThread)
    \/ Write(MainThread)
    \/ Enter(MainThread)
    \/ Pause
    \/ Finish
    \/ SavePartial
    \/ SaveCheckpoint
    \/ SaveCaches
    \/ Crash
    \/ TornWrite

SpecTorn == Init /\ [][NextTorn]_vars

\* a started run takes its next step: the loop and the saves are straight-line
\* code, a request is answered or raises, and a sleep ends
FairSpec == Init /\ [][NextRun]_vars /\ WF_vars(RunStep)

\* a process makes a call while it has made few of them for the table it has
Few == calls + Len(df) < MaxLoad
Light == calls + Len(df) < MaxRunLoad

\* a process of one thread: the batch run, and calls before it or after it
NextSerial ==
    \/ Start
    \/ Row
    \/ Reply(MainThread)
    \/ Write(MainThread)
    \/ Enter(MainThread)
    \/ Pause
    \/ Finish
    \/ SavePartial
    \/ SaveCheckpoint
    \/ SaveCaches
    \/ Crash
    \/ Light /\ RunIcp(MainThread)
    \/ Light /\ RunQualification(MainThread)
    \/ QualPause(MainThread)
    \/ Light /\ Lookup(MainThread)

SpecSerial == Init /\ [][NextSerial]_vars

\* a process whose two threads make calls, as the sessions of the dashboard
\* do (dashboard.py line 48), and no batch run
NextShared ==
    \/ \E t \in Callers : Few /\ RunIcp(t)
    \/ \E t \in Callers : Few /\ RunQualification(t)
    \/ \E t \in Callers : QualPause(t)
    \/ \E t \in Callers : Few /\ Lookup(t)
    \/ \E t \in Callers : Reply(t)
    \/ \E t \in Callers : Write(t)
    \/ \E t \in Callers : Enter(t)
    \/ Crash

SpecShared == Init /\ [][NextShared]_vars

(***************************************************************************)
(* decide on its own: the arguments are drawn from the values the lookups  *)
(* can return, the threshold from two configurations of the ICP rules.     *)
(***************************************************************************)
Thresholds == {SCORE_THRESHOLD, 60}

DecideInputs ==
    [bucket : {"Art", "None"},
     hq : {<<>>, <<"C","a","n","a","d","a">>, <<"M","a","r","s">>},
     emp : {"10-50", "50-500", ">20000"},
     rev : {"5M-50M", "50M-500M", ">1B"},
     industry_pass : BOOLEAN]

EngineAtRest ==
    /\ df = <<>>
    /\ oracle0 = oracle
    /\ cache0 = ColdCaches
    /\ classify_cache = EmptyDict
    /\ company_cache = EmptyDict
    /\ industry_cache = EmptyDict
    /\ disk = [classify |-> EmptyDict, company |-> EmptyDict, industry |-> EmptyDict,
               checkpoint |-> NoCheckpoint, partial |-> NoTable, output |-> NoTable]
    /\ pc = "idle"
    /\ pos = 0
    /\ phase = "none"
    /\ processed = {}
    /\ results = <<>>
    /\ seen_urls = {}
    /\ job = [t \in Callers |-> NoJob]
    /\ arg = NoArg
    /\ asked = <<>>
    /\ requests = 0
    /\ outcome = "loaded"
    /\ ret = NoReturn
    /\ calls = 0
    /\ crashes = 0
    /\ failed = {}

InitDecide ==
    /\ oracle = "unconfigured"
    /\ threshold \in Thresholds
    /\ inputs \in DecideInputs
    /\ dec = NoReturn
    /\ EngineAtRest
    /\ RateAtRest
    /\ CallsAtRest

\* one call decide(company, bucket, detailed, hq, emp, rev, industry_pass)
Decide ==
    /\ dec = NoReturn
    /\ dec' = decide(threshold, C_ACME, inputs.bucket, "Programming", inputs.hq,
                     inputs.emp, inputs.rev, inputs.industry_pass)
    /\ UNCHANGED <<oracle, threshold, inputs, engine_vars, rate_vars, call_vars>>

SpecDecide == InitDecide /\ [][Decide]_vars

(***************************************************************************)
(* rate_limited_groq, statement by statement, called from the threads of   *)
(* Callers.  Time is counted in twentieths of a second.  Between two steps *)
(* time stands still or passes: to the moment the next sleeper or the next *)
(* reply is due, or, while no thread is inside the wrapper, by TickStep.   *)
(***************************************************************************)
\* the requests after which no new call is made, and the clock beyond which
\* time passes only to wake a sleeper
MaxRequests == 29
MaxClock == 1300
TickStep == 600

\* the time the oracle takes over a request: none to speak of, or 2 s; and
\* the requests of a process, from its first on, that may take the 2 s
ReplyTimes == {0, Ticks(2)}
MaxSlow == 1

Text == [text |-> <<"o","k">>]

InitRate ==
    /\ oracle \in {"unconfigured", "answering", "failing", "flaky"}
    /\ threshold = SCORE_THRESHOLD
    /\ EngineAtRest
    /\ RateAtRest
    /\ DecideAtRest
    /\ CallsAtRest

\* the threads that call: both while requests succeed, one where they raise
\* (the retries of two threads multiply the moments at which requests go out)
Active == IF oracle \in {"failing", "flaky"} THEN {"t1"} ELSE Callers

\* lines 210-213: a call; without a client it returns None at once
Call(t) ==
    /\ t \in Active
    /\ caller[t].pc = "idle"
    /\ issued < MaxRequests
    /\ caller' = [caller EXCEPT ![t] =
                    IF oracle = "unconfigured"
                    THEN [Outside EXCEPT !.pc = "ret", !.out = None]
                    ELSE [Outside EXCEPT !.pc = "acquire"]]
    /\ UNCHANGED <<oracle, threshold, engine_vars, decide_vars, call_vars,
                   clock, WINDOW_START, CALLS_IN_WINDOW, RATE_LOCK, sent, issued>>

\* the window and the count after lines 216-219
WindowAt(now) == WindowOf(WINDOW_START, CALLS_IN_WINDOW, now)

\* the wrapper with the sleep of line 223 taken outside the lock
AcquireThenSleepUnlocked(t) ==
    /\ caller[t].pc = "acquire"
    /\ RATE_LOCK = "free"
    /\ \E w \in {WindowAt(clock)} :
         /\ WINDOW_START' = w.start
         /\ IF w.calls >= RPM_LIMIT
            THEN /\ CALLS_IN_WINDOW' = w.calls
                 /\ RATE_LOCK' = RATE_LOCK
                 /\ caller' = [caller EXCEPT ![t].pc = "sleeping",
                                             ![t].wake = clock + Ticks(WINDOW_SEC)
                                                         - (clock - w.start) + 2]
            ELSE /\ CALLS_IN_WINDOW' = w.calls + 1
                 /\ RATE_LOCK' = RATE_LOCK
                 /\ caller' = [caller EXCEPT ![t].pc = "send"]
    /\ UNCHANGED <<oracle, threshold, engine_vars, decide_vars, call_vars, clock, sent, issued>>

\* lines 215-226 up to the sleep: the lock is taken, the window is reset when
\* it is over; with the window exhausted the thread sleeps holding the lock,
\* otherwise it counts its request and releases the lock
Acquire(t) ==
    /\ caller[t].pc = "acquire"
    /\ RATE_LOCK = "free"
    /\ \E w \in {WindowAt(clock)} :
         /\ WINDOW_START' = w.start
         /\ IF w.calls >= RPM_LIMIT
            THEN /\ CALLS_IN_WINDOW' = w.calls
                 /\ RATE_LOCK' = t
                 /\ caller' = [caller EXCEPT ![t].pc = "sleeping",
                                             ![t].wake = clock + Ticks(WINDOW_SEC)
                                                         - (clock - w.start) + 2]
            ELSE /\ CALLS_IN_WINDOW' = w.calls + 1
                 /\ RATE_LOCK' = RATE_LOCK
                 /\ caller' = [caller EXCEPT ![t].pc = "send"]
    /\ UNCHANGED <<oracle, threshold, engine_vars, decide_vars, call_vars, clock, sent, issued>>

\* lines 223-226: the sleep is over; the count restarts, the request is
\* counted and the lock released
Wake(t) ==
    /\ caller[t].pc = "sleeping"
    /\ clock >= caller[t].wake
    /\ CALLS_IN_WINDOW' = 1
    /\ WINDOW_START' = clock
    /\ RATE_LOCK' = "free"
    /\ caller' = [caller EXCEPT ![t].pc = "send"]
    /\ UNCHANGED <<oracle, threshold, engine_vars, decide_vars, call_vars, clock, sent, issued>>

\* line 228: the request goes out, the lock released; the thread waits for
\* the reply, which comes, or fails to, after some time
Send(t) ==
    /\ caller[t].pc = "send"
    /\ sent' = Recent(Append(sent, clock), clock)
    /\ issued' = issued + 1
    /\ \E took \in IF issued < MaxSlow THEN ReplyTimes ELSE {0} :
         caller' = [caller EXCEPT ![t].pc = "wait", ![t].sends = @ + 1,
                                  ![t].wake = clock + took]
    /\ UNCHANGED <<oracle, threshold, engine_vars, decide_vars, call_vars,
                   clock, WINDOW_START, CALLS_IN_WINDOW, RATE_LOCK>>

\* lines 229-237: the text of the reply is returned, or the request has
\* raised and the thread sleeps 1.5 * (attempt + 1) seconds
Receive(t) ==
    /\ caller[t].pc = "wait"
    /\ clock >= caller[t].wake
    /\ caller' = [caller EXCEPT ![t] =
                    IF Succeeds(caller[t].attempt)
                    THEN [@ EXCEPT !.pc = "ret", !.out = Text]
                    ELSE [@ EXCEPT !.pc = "backoff",
                                   !.wake = clock + 30 * (caller[t].attempt + 1)]]
    /\ UNCHANGED <<oracle, threshold, engine_vars, decide_vars, call_vars,
                   clock, WINDOW_START, CALLS_IN_WINDOW, RATE_LOCK, sent, issued>>

\* lines 214 and 238: the next attempt, or None after the last one
Retry(t) ==
    /\ caller[t].pc = "backoff"
    /\ clock >= caller[t].wake
    /\ caller' = [caller EXCEPT ![t] =
                    IF Exhausted(caller[t].attempt)
                    THEN [@ EXCEPT !.pc = "ret", !.out = None]
                    ELSE [@ EXCEPT !.pc = "acquire", !.attempt = @ + 1]]
    /\ UNCHANGED <<oracle, threshold, engine_vars, decide_vars, call_vars,
                   clock, WINDOW_START, CALLS_IN_WINDOW, RATE_LOCK, sent, issued>>

\* the caller has the value
Return(t) ==
    /\ caller[t].pc = "ret"
    /\ caller' = [caller EXCEPT ![t] = Outside]
    /\ UNCHANGED <<oracle, threshold, engine_vars, decide_vars, call_vars,
                   clock, WINDOW_START, CALLS_IN_WINDOW, RATE_LOCK, sent, issued>>

\* the moments at which a sleeping thread, or a reply, is due
Due == { caller[t].wake : t \in { u \in Callers : caller[u].pc \in {"sleeping", "wait", "backoff"}
                                                   /\ caller[u].wake > clock } }

\* no thread is inside the wrapper
Quiet == \A t \in Callers : caller[t].pc = "idle"

\* time passes: to the next moment a sleeper is due, or, between calls, by TickStep
Tick ==
    /\ \E later \in { d \in Due : \A e \in Due : d <= e }
                    \cup { c \in {clock + TickStep} : Quiet /\ c <= MaxClock } :
         /\ clock' = later
         /\ sent' = Recent(sent, later)
    /\ UNCHANGED <<oracle, threshold, engine_vars, decide_vars, call_vars,
                   WINDOW_START, CALLS_IN_WINDOW, RATE_LOCK, caller, issued>>

\* what a thread that is inside the wrapper does next
Inside(t) == Acquire(t) \/ Wake(t) \/ Send(t) \/ Receive(t) \/ Retry(t)

NextRate ==
    \/ \E t \in Callers : Call(t)
    \/ \E t \in Callers : Acquire(t)
    \/ \E t \in Callers : Wake(t)
    \/ \E t \in Callers : Send(t)
    \/ \E t \in Callers : Receive(t)
    \/ \E t \in Callers : Retry(t)
    \/ \E t \in Callers : Return(t)
    \/ Tick

\* a thread inside the wrapper runs on, and time passes
SpecRate ==
    /\ InitRate
    /\ [][NextRate]_vars
    /\ \A t \in Callers : WF_vars(Inside(t))
    /\ WF_vars(Tick)

(***************************************************************************)
(* load_json, save_json and _load_config on the file config/<name>.json.   *)
(* A file is [exists, text].                                               *)
(***************************************************************************)
\* the decimal digits of a natural number
RECURSIVE DigitsOf(_)
DigitsOf(n) ==
    IF n < 10 THEN <<DigitChars[n + 1]>>
    ELSE DigitsOf(n \div 10) \o <<DigitChars[(n % 10) + 1]>>

Indent(level) == [i \in 1..(2 * level) |-> " "]

RECURSIVE JsonDumps(_, _)
RECURSIVE DumpMembers(_, _, _)
RECURSIVE DumpElements(_, _, _)

\* json.dumps(value, indent=2), the value standing at nesting depth `level`
JsonDumps(value, level) ==
    IF value = None THEN <<"n","u","l","l">>
    ELSE IF "str" \in DOMAIN value THEN <<QUOTE>> \o value.str \o <<QUOTE>>
    ELSE IF "int" \in DOMAIN value
    THEN IF value.int < 0 THEN <<"-">> \o DigitsOf(-value.int) ELSE DigitsOf(value.int)
    ELSE IF "float" \in DOMAIN value
    THEN IF value.float = "nan" THEN <<"N","a","N">>
         ELSE IF value.float = "inf" THEN <<"I","n","f","i","n","i","t","y">>
         ELSE <<"-","I","n","f","i","n","i","t","y">>
    ELSE IF "bool" \in DOMAIN value
    THEN IF value.bool THEN <<"t","r","u","e">> ELSE <<"f","a","l","s","e">>
    ELSE IF "list" \in DOMAIN value
    THEN IF value.list = <<>> THEN <<"[","]">>
         ELSE <<"[", NEWLINE>> \o DumpElements(value.list, 1, level + 1)
              \o <<NEWLINE>> \o Indent(level) \o <<"]">>
    ELSE IF value.keys = <<>> THEN <<"{","}">>
         ELSE <<"{", NEWLINE>> \o DumpMembers(value.dict, value.keys, level + 1)
              \o <<NEWLINE>> \o Indent(level) \o <<"}">>

DumpMembers(d, keys, level) ==
    Indent(level) \o <<QUOTE>> \o Head(keys) \o <<QUOTE, ":", " ">>
    \o JsonDumps(d[Head(keys)], level)
    \o (IF Len(keys) = 1 THEN <<>>
        ELSE <<",", NEWLINE>> \o DumpMembers(d, Tail(keys), level))

DumpElements(list, i, level) ==
    Indent(level) \o JsonDumps(list[i], level)
    \o (IF i = Len(list) THEN <<>>
        ELSE <<",", NEWLINE>> \o DumpElements(list, i + 1, level))

\* lines 69-75: the parsed text of the file; {} for no file and for a text
\* json.loads rejects
load_json(file) ==
    IF file.exists
    THEN IF json_loads(file.text).ok THEN json_loads(file.text).val ELSE EmptyObject
    ELSE EmptyObject

\* lines 77-78: the file after path.write_text(json.dumps(obj, indent=2))
save_json(obj) == [exists |-> TRUE, text |-> JsonDumps(obj, 0)]

\* lines 87-96: the value returned and the file left behind; load_json
\* raises nothing, so the handler of lines 95-96 is never entered
LoadConfig(file, default) ==
    IF ~file.exists
    THEN [value |-> default, file |-> save_json(default)]
    ELSE [value |-> load_json(file), file |-> file]

(***************************************************************************)
(* Calls of single functions: the arguments are drawn from the samples     *)
(* below, the function is applied, and fn_result holds what it returned.   *)
(***************************************************************************)
\* single quotes, prose around the object
R_PROSE_SINGLE == <<"h","e","r","e",APOSTROPHE,"s"," ","y","o","u","r"," ","a","n","s","w","e","r",":"," ","{",APOSTROPHE,"d","e","t","a","i","l","e","d","_","s","e","r","v","i","c","e",APOSTROPHE,":"," ",APOSTROPHE,"A","r","t",APOSTROPHE,","," ",APOSTROPHE,"s","e","r","v","i","c","e","_","b","u","c","k","e","t",APOSTROPHE,":"," ",APOSTROPHE,"A","r","t",APOSTROPHE,"}"," ","t","h","a","n","k","s">>
\* single quotes, nothing around the object
R_SINGLE == <<"{",APOSTROPHE,"d","e","t","a","i","l","e","d","_","s","e","r","v","i","c","e",APOSTROPHE,":"," ",APOSTROPHE,"A","r","t",APOSTROPHE,","," ",APOSTROPHE,"s","e","r","v","i","c","e","_","b","u","c","k","e","t",APOSTROPHE,":"," ",APOSTROPHE,"A","r","t",APOSTROPHE,"}">>
\* double quotes, prose around the object
R_PROSE_DOUBLE == <<"S","u","r","e",":"," ","{",QUOTE,"d","e","t","a","i","l","e","d","_","s","e","r","v","i","c","e",QUOTE,":"," ",QUOTE,"A","r","t",QUOTE,","," ",QUOTE,"s","e","r","v","i","c","e","_","b","u","c","k","e","t",QUOTE,":"," ",QUOTE,"A","r","t",QUOTE,"}"," ","o","k">>
\* JSON
R_PLAIN == <<"{",QUOTE,"d","e","t","a","i","l","e","d","_","s","e","r","v","i","c","e",QUOTE,":"," ",QUOTE,"A","r","t",QUOTE,","," ",QUOTE,"s","e","r","v","i","c","e","_","b","u","c","k","e","t",QUOTE,":"," ",QUOTE,"A","r","t",QUOTE,"}">>
\* a trailing comma
R_TRAILING == <<"{",QUOTE,"a",QUOTE,":"," ",QUOTE,"b",QUOTE,",","}">>
\* a newline and single quotes
R_NEWLINE == <<"{",QUOTE,"a",QUOTE,":",NEWLINE,APOSTROPHE,"b",APOSTROPHE,"}">>
\* a list with a trailing comma
R_LIST == <<"[",QUOTE,"x",QUOTE,","," ","]">>
\* a number
R_NUMBER == <<"7">>
\* null
R_NULL == <<"n","u","l","l">>
\* a key met twice
R_TWICE == <<"{",QUOTE,"a",QUOTE,":",QUOTE,"x",QUOTE,",",QUOTE,"a",QUOTE,":",QUOTE,"y",QUOTE,"}">>
\* two objects
R_TWO == <<"{","}","x","{","}">>
\* no JSON at all
R_WORDS == <<"n","o"," ","i","d","e","a">>
\* a blank
R_BLANK == <<" ">>
\* the constants json.loads takes besides the JSON grammar
R_NAN == <<"N","a","N">>
R_MINUS_INFINITY == <<"-","I","n","f","i","n","i","t","y">>

RepairTexts ==
    { <<>>, R_PROSE_SINGLE, R_SINGLE, R_PROSE_DOUBLE, R_PLAIN, R_TRAILING, R_NEWLINE, R_LIST, R_NUMBER, R_NULL, R_TWICE, R_TWO, R_WORDS, R_BLANK,
      R_NAN, R_MINUS_INFINITY }

\* the mapping the samples with the two service keys hold
ArtMapping ==
    PutOrdered(PutOrdered(EmptyObject, <<"d","e","t","a","i","l","e","d","_","s","e","r","v","i","c","e">>, [str |-> <<"A","r","t">>]),
               <<"s","e","r","v","i","c","e","_","b","u","c","k","e","t">>, [str |-> <<"A","r","t">>])

\* defaults handed to _load_config: a part of DEFAULT_ICP_RULES and a part of
\* DEFAULT_SERVICE_MAPPING
DefaultRules == PutOrdered(EmptyObject, <<"s","c","o","r","e","_","t","h","r","e","s","h","o","l","d">>, [int |-> SCORE_THRESHOLD])
DefaultMapping ==
    PutOrdered(PutOrdered(EmptyObject, <<"u","x">>, [list |-> <<[str |-> <<"U","I","/","U","X">>], [str |-> <<"A","r","t">>]>>]),
               <<"r","i","g">>, [list |-> <<[str |-> <<"R","i","g","g","i","n","g">>], [str |-> <<"A","r","t">>]>>])
ConfigDefaults == {DefaultRules, DefaultMapping}

\* config files: none, one a user has tweaked, and texts json.loads rejects
F_TWEAKED == <<"{",QUOTE,"s","c","o","r","e","_","t","h","r","e","s","h","o","l","d",QUOTE,":"," ","6","0","}">>
F_CUT == <<"{",QUOTE,"s","c","o","r","e","_","t","h","r","e","s","h","o","l","d",QUOTE,":"," ">>
F_QUOTES == <<"{",APOSTROPHE,"s","c","o","r","e","_","t","h","r","e","s","h","o","l","d",APOSTROPHE,":"," ","6","0","}">>
ConfigFiles ==
    { NoFile, [exists |-> TRUE, text |-> F_TWEAKED], [exists |-> TRUE, text |-> F_CUT],
      [exists |-> TRUE, text |-> F_QUOTES], [exists |-> TRUE, text |-> <<>>],
      [exists |-> TRUE, text |-> R_NAN] }

\* a title with the keys "engineer" and "engine programmer", and one with the
\* keys "animator" and "technical animator"
T_BOTH == <<"E","n","g","i","n","e","e","r"," ","/"," ","E","n","g","i","n","e"," ","P","r","o","g","r","a","m","m","e","r">>
T_ANIMATOR == <<"L","e","a","d"," ","T","e","c","h","n","i","c","a","l"," ","A","n","i","m","a","t","o","r">>
RuleTitles == Titles \cup {T_BOTH, T_ANIMATOR, <<>>}

EmployeeRanges == {"<10", "10-50", "50-500", "500-5000", "5000-20000", ">20000", "Unknown"}
RevenueRanges == {"<5M", "5M-50M", "50M-500M", "500M-1B", ">1B", "Unknown"}
Buckets == {"Art", "Co-Dev", "Full", "None"}
HqTexts == { <<>>, <<"U","n","i","t","e","d"," ","S","t","a","t","e","s">>, <<"M","a","r","s">>, <<"U","n","k","n","o","w","n">> }

CallSamples ==
    [fn : {"repair_json"}, text : RepairTexts]
    \cup [fn : {"_load_config"}, default : ConfigDefaults]
    \cup [fn : {"classify_service_rule"}, title : RuleTitles]
    \cup [fn : {"weighted_score"}, emp : EmployeeRanges, rev : RevenueRanges, hq : HqTexts,
          bucket : Buckets, industry_ok : BOOLEAN]
    \cup [fn : {"legacy_qualify"}, emp : EmployeeRanges, rev : RevenueRanges, hq : HqTexts,
          bucket : Buckets, industry_pass : BOOLEAN]

Returned(value) == [kind |-> "returned", value |-> value]

InitCalls ==
    /\ oracle = "unconfigured"
    /\ threshold = SCORE_THRESHOLD
    /\ fn_call \in CallSamples
    /\ fn_result = NoReturn
    /\ config_file \in (IF fn_call.fn = "_load_config" THEN ConfigFiles ELSE {NoFile})
    /\ EngineAtRest
    /\ RateAtRest
    /\ DecideAtRest

CallRepairJson ==
    /\ fn_call.fn = "repair_json"
    /\ fn_result = NoReturn
    /\ fn_result' = Returned(repair_json(fn_call.text))
    /\ UNCHANGED <<oracle, threshold, engine_vars, rate_vars, decide_vars, fn_call, config_file>>

CallLoadConfig ==
    /\ fn_call.fn = "_load_config"
    /\ fn_result = NoReturn
    /\ \E v \in {LoadConfig(config_file, fn_call.default)} :
         /\ fn_result' = Returned(v.value)
         /\ config_file' = v.file
    /\ UNCHANGED <<oracle, threshold, engine_vars, rate_vars, decide_vars, fn_call>>

\* the value returned, and the mapping key the loop of line 268 stood at
CallClassifyRule ==
    /\ fn_call.fn = "classify_service_rule"
    /\ fn_result = NoReturn
    /\ fn_result' = [kind |-> "returned", value |-> classify_service_rule(fn_call.title),
                     key |-> IF RuleHits(normalize_title(fn_call.title)) = {} THEN <<>>
                             ELSE SERVICE_MAPPING[RuleChoice(normalize_title(fn_call.title))].key]
    /\ UNCHANGED <<oracle, threshold, engine_vars, rate_vars, decide_vars, fn_call, config_file>>

CallWeightedScore ==
    /\ fn_call.fn = "weighted_score"
    /\ fn_result = NoReturn
    /\ fn_result' = Returned(weighted_score(fn_call.emp, fn_call.rev, fn_call.hq,
                                            fn_call.bucket, fn_call.industry_ok))
    /\ UNCHANGED <<oracle, threshold, engine_vars, rate_vars, decide_vars, fn_call, config_file>>

CallLegacyQualify ==
    /\ fn_call.fn = "legacy_qualify"
    /\ fn_result = NoReturn
    /\ fn_result' = Returned(legacy_qualify(C_ACME, fn_call.bucket, "Programming", fn_call.hq,
                                            fn_call.emp, fn_call.rev, fn_call.industry_pass))
    /\ UNCHANGED <<oracle, threshold, engine_vars, rate_vars, decide_vars, fn_call, config_file>>

NextCalls ==
    \/ CallRepairJson
    \/ CallLoadConfig
    \/ CallClassifyRule
    \/ CallWeightedScore
    \/ CallLegacyQualify

SpecCalls == InitCalls /\ [][NextCalls]_vars


(***************************************************************************)
(* An uninterrupted run of process_dataframe from a process that finds no  *)
(* checkpoint and no partial table: the loop of lines 481-552 over the     *)
(* whole table; final_df holds the rows of results.                        *)
(***************************************************************************)
RECURSIVE RunFrom(_, _, _, _, _)
RunFrom(table, i, m, W, thr) ==
    IF i > Len(table) THEN m
    ELSE IF VisitRow(table, i, m).kind # "enrich"
    THEN RunFrom(table, i + 1, VisitRow(table, i, m).m, W, thr)
    ELSE LET r == Through(Advance(NewJob("row", Cells(table[i])), W))
         IN  RunFrom(table, i + 1, Enrich(r.j, i - 1, m, thr, r.end).m, r.W, thr)

Uninterrupted(table, caches, thr) ==
    RunFrom(table, 1, FreshLocals, FreshWorld(caches), thr).results

\* two tables hold the same rows, each as often, in any order
Count(r, rows) == Cardinality({ i \in DOMAIN rows : rows[i] = r })
SameRows(a, b) == \A r \in Range(a) \cup Range(b) : Count(r, a) = Count(r, b)

\* every key of `old` is in `new` with the value it had
Kept(old, new) == \A k \in DOMAIN old : k \in DOMAIN new /\ new[k] = old[k]

\* the run has returned: every row was passed, and the final table, the partial
\* table and the checkpoint are written with what the run holds
RunCompleted ==
    /\ pc = "done"
    /\ pos = Len(df) + 1
    /\ disk.output = to_csv(results)
    /\ disk.partial = to_csv(results)
    /\ disk.checkpoint = save_checkpoint(processed)

\* the loop stands before a row that is not skipped: its index is not
\* processed, its title and company are not empty, its URL was not seen
RowAtGate ==
    /\ pc = "loop"
    /\ pos <= Len(df)
    /\ (pos - 1) \notin processed
    /\ Cells(df[pos]).title # <<>>
    /\ Cells(df[pos]).company # <<>>
    /\ ~SeenBefore(Cells(df[pos]).url, seen_urls)

\* the loop stands before a row, not yet processed, whose URL was seen
RowWithSeenUrl ==
    /\ pc = "loop"
    /\ pos <= Len(df)
    /\ (pos - 1) \notin processed
    /\ SeenBefore(Cells(df[pos]).url, seen_urls)

\* a step in which a thread calls run_icp_engine_logic
IcpBegins ==
    /\ calls' = calls + 1
    /\ \E t \in Callers :
         /\ job[t].op = "none"
         /\ \/ job'[t].op = "icp"
            \/ job'[t].op = "none" /\ outcome' \in {"nongame", "classified", "raised"}

\* a step in which a call of run_icp_engine_logic has returned or raised
IcpStep ==
    /\ crashes' = crashes
    /\ outcome' \in {"nongame", "classified", "raised"}
    /\ \/ IcpBegins
       \/ \E t \in Callers : job[t].op = "icp" /\ job'[t].op = "none"

\* a step of the main thread in the pass of the loop of process_dataframe
\* over the row at pos, and one in which that pass ends
RowStep == pc \in {"loop", "row"} /\ pos <= Len(df) /\ crashes' = crashes
RowDone == RowStep /\ (pc' \in {"pause", "csv"} \/ (pc' = "loop" /\ pos' # pos))

(***************************************************************************)
(* Claims                                                                  *)
(***************************************************************************)
\* C1: idempotent resume.  When a run that was started after an interruption
\* returns, its rows are the rows an uninterrupted run of the same table
\* returns from the caches the first process loaded, in any order, the oracle
\* being the one the first process found.
ResumeReturnsSameRows ==
    (pc = "done" /\ crashes > 0 /\ oracle = oracle0) =>
        SameRows(results, Uninterrupted(df, cache0, threshold))

\* C2: a row's failure never aborts the batch.  The rows are passed one by one
\* in input order: the loop comes to a row only from the row before it, once
\* that row has been passed, recorded and slept on, or has raised and been
\* handled.  And once a row has raised, the run, unless the process is
\* ended, goes on to return with every row passed and the final table, the
\* partial table and the checkpoint written.
RowFailureNeverAborts ==
    /\ [][pos' # pos => (pos' = pos + 1 \/ pc = "idle" \/ pc' = "idle")]_vars
    /\ [][(pc \in {"loop", "row", "pause", "caches"} /\ pc' = "loop") => pos' = pos + 1]_vars
    /\ (pc = "csv" /\ phase = "error") ~> (pc = "idle" \/ RunCompleted)

\* C2 witness: a run has returned although one of its rows raised (a row that
\* raised is the only one a finished run leaves unprocessed)
RowRaisedAndRunCompleted ==
    /\ RunCompleted
    /\ \E i \in DOMAIN df : (i - 1) \notin processed

\* C3: gate short-circuit.  A row that reaches the gate with a title failing
\* is_game_role is recorded as "Not Qualified" with score 0 and bucket "None",
\* and a call of run_icp_engine_logic with such a title returns these; in both
\* nothing is given to the oracle wrapper, no request is counted, and the
\* three caches, their files and the counters of the wrapper stay as they
\* are: the row, and the call, is over in the step in which it began.
GateShortCircuit ==
    [][ /\ (RowAtGate /\ ~IsGameRole(Cells(df[pos]).title) /\ pc' # "idle") =>
              /\ outcome' = "nongame"
              /\ Len(results') = Len(results) + 1
              /\ results'[Len(results')].decision = "Not Qualified"
              /\ results'[Len(results')].score = 0
              /\ results'[Len(results')].service_bucket = "None"
              /\ asked' = <<>>
              /\ requests' = requests
              /\ UNCHANGED <<classify_cache, company_cache, industry_cache, disk,
                             CALLS_IN_WINDOW, WINDOW_START, sent, issued>>
        /\ (IcpBegins /\ ~IsGameRole(arg'.title)) =>
              /\ outcome' = "nongame"
              /\ ret'.kind = "returned"
              /\ ret'.decision = "Not Qualified"
              /\ ret'.score = 0
              /\ ret'.service_bucket = "None"
              /\ asked' = <<>>
              /\ requests' = requests
              /\ UNCHANGED <<classify_cache, company_cache, industry_cache, disk,
                             CALLS_IN_WINDOW, WINDOW_START, sent, issued>>
      ]_vars

\* C3 witness: the batch run recorded a non-game row and the call that followed
\* it was short-circuited as well
GateClosedOnBothPaths ==
    /\ ret # NoReturn
    /\ outcome = "nongame"
    /\ \E i \in DOMAIN results : results[i].detailed_service = "Non-Game Role"

\* C4 as stated: when the run has returned, of two rows of the table with the
\* same non-empty URL the later one is marked processed and is not in the output.
LaterSharedUrlIsSkipped ==
    pc = "done" =>
        \A i, j \in DOMAIN df :
            (i < j /\ Truthy(Cells(df[i]).url) /\ Cells(df[i]).url = Cells(df[j]).url) =>
                /\ (j - 1) \in processed
                /\ \A k \in DOMAIN results : results[k].source_index # j - 1

\* C4 amended: the seen-URL set holds the non-empty URLs of the rows this run
\* has appended to the result list and of the rows it read back from the
\* partial table of the run it resumes (of none of them when the
\* _source_index column of that table holds a missing value); a row not yet
\* processed whose URL is in that set is marked processed and passed over,
\* and adds no row to the results.
SeenUrlIsSkipped ==
    /\ [][(pc = "idle" /\ pc' = "loop") =>
              seen_urls' = IF IndexColumnRaises(results') THEN {} ELSE UrlsOf(results')]_vars
    /\ [][(pc \in {"loop", "row"} /\ pc' # "idle") =>
              seen_urls' = seen_urls \cup UrlsOf(SubSeq(results', Len(results) + 1, Len(results')))]_vars
    /\ [](~(\E i \in DOMAIN results : results[i].source_index = NaNNumber) =>
              seen_urls = UrlsOf(results))
    /\ [][(RowWithSeenUrl /\ pc' # "idle") =>
              /\ processed' = processed \cup {pos - 1}
              /\ results' = results
              /\ pos' = pos + 1]_vars

\* C4 witness: a resumed run has skipped a row whose URL it read back from the
\* partial table
DuplicateSkippedOnResume ==
    /\ crashes > 0
    /\ outcome = "duplicate"
    /\ disk.partial.exists
    /\ results = read_csv(disk.partial)
    /\ results # <<>>

\* C5: reconciliation in decide.  A legacy verdict of Qualified is returned
\* with the weighted score; otherwise a score at or above the threshold gives
\* Qualified with the reason "passes weighted score" and confidence int(score);
\* otherwise the legacy verdict and reasons are returned with the score.  With
\* the threshold 75, failing one legacy check and scoring 75 or more is Qualified.
DecideReconciles ==
    dec # NoReturn =>
        LET legacy == legacy_qualify(C_ACME, inputs.bucket, "Programming", inputs.hq,
                                     inputs.emp, inputs.rev, inputs.industry_pass)
            score == weighted_score(inputs.emp, inputs.rev, inputs.hq, inputs.bucket,
                                    inputs.industry_pass)
            checks == LegacyChecks(inputs.bucket, inputs.hq, inputs.emp, inputs.rev,
                                   inputs.industry_pass)
        IN  /\ legacy.decision = "Qualified" =>
                  dec = [decision |-> "Qualified", reason |-> legacy.reason,
                         confidence |-> legacy.confidence, score |-> score]
            /\ (legacy.decision # "Qualified" /\ score >= threshold * 100) =>
                  /\ dec.decision = "Qualified"
                  /\ dec.reason = [kind |-> "passes weighted score", reasons |-> <<>>]
                  /\ dec.confidence = score \div 100
                  /\ dec.score = score
            /\ (legacy.decision # "Qualified" /\ score < threshold * 100) =>
                  dec = [decision |-> "Not Qualified", reason |-> legacy.reason,
                         confidence |-> legacy.confidence, score |-> score]
            /\ (threshold = 75 /\ score >= 7500
                /\ Cardinality({ i \in 1..5 : ~checks[i] }) = 1) =>
                  dec.decision = "Qualified"

\* C5 witness: one legacy check fails, the score is exactly the threshold 75,
\* and decide has overridden the legacy verdict
OverrideAtThreshold ==
    /\ dec # NoReturn
    /\ threshold = 75
    /\ dec.score = 7500
    /\ dec.decision = "Qualified"
    /\ dec.reason.kind = "passes weighted score"
    /\ Cardinality({ i \in 1..5 : ~LegacyChecks(inputs.bucket, inputs.hq, inputs.emp,
                                                 inputs.rev, inputs.industry_pass)[i] }) = 1

\* C6: determinism of the rule path.  When run_icp_engine_logic has classified
\* a title whose normalized form contains a mapping key, the service it returns
\* is that mapping's value and the oracle was given no classify prompt.
RulePathWins ==
    (ret # NoReturn /\ outcome = "classified") =>
        (classify_service_rule(arg.title) # None =>
            /\ ret.detailed_service = classify_service_rule(arg.title).detailed_service
            /\ ret.service_bucket = classify_service_rule(arg.title).service_bucket
            /\ \A i \in DOMAIN asked : asked[i][1] # "classify")

\* C7: the order of detect_industry.  When run_icp_engine_logic has classified
\* a call, a company on the forced-exclusion list has industry_match false and
\* a company matching the trusted list has industry_match true.
ListsDecideIndustry ==
    (ret # NoReturn /\ outcome = "classified") =>
        /\ Strip(Lower(arg.company)) \in ForcedNonGaming => ret.industry_match = FALSE
        /\ (Strip(Lower(arg.company)) \notin ForcedNonGaming
            /\ \E name \in TrustedGameCompanies : Contains(name, Strip(Lower(arg.company)))) =>
               ret.industry_match = TRUE

\* C8: the rate limit.  At every moment at most RPM_LIMIT requests have been
\* sent within the WINDOW_SEC seconds before it.
RollingWindowLimit == Len(sent) <= RPM_LIMIT

\* C9: rate_limited_groq ends with text or None.  A query sends at most four
\* requests; text is returned on the first request that succeeds; None is
\* returned without a client, with no request sent and the counters untouched,
\* or after four requests that all failed; and every call returns.
WrapperTerminates ==
    /\ [](\A t \in Callers :
            /\ caller[t].sends <= 4
            /\ caller[t].pc = "ret" =>
                 /\ caller[t].out \in {Text, None}
                 /\ caller[t].out = Text =>
                       /\ Succeeds(caller[t].sends - 1)
                       /\ \A a \in 0..(caller[t].sends - 2) : ~Succeeds(a)
                 /\ caller[t].out = None =>
                       IF oracle = "unconfigured" THEN caller[t].sends = 0
                       ELSE caller[t].sends = 4 /\ \A a \in 0..3 : ~Succeeds(a)
            /\ oracle = "unconfigured" =>
                 CALLS_IN_WINDOW = 0 /\ WINDOW_START = 0 /\ issued = 0 /\ RATE_LOCK = "free")
    /\ \A t \in Callers : (caller[t].pc # "idle") ~> (caller[t].pc = "ret")

\* C9 witness: a call has returned None after its fourth request failed
AbsentAfterFourthAttempt ==
    \E t \in Callers : caller[t].pc = "ret" /\ caller[t].out = None /\ caller[t].sends = 4

\* C10: cache monotonicity.  Each key the classify, the company and the
\* industry cache held, in memory and in its file, when the first process
\* loaded them is in the cache with the value it had, at every moment of that
\* process and of a process that runs after it.
CachesOnlyGrow ==
    /\ Kept(cache0.classify, classify_cache)
    /\ Kept(cache0.company, company_cache)
    /\ Kept(cache0.industry, industry_cache)

\* C11: the checkpoint invariant.  When process_dataframe has written the
\* partial table and then the checkpoint, the indices of the checkpoint are
\* the source indices of the rows of the partial table.
CheckpointMatchesPartial ==
    pc = "caches" =>
        disk.checkpoint.processed_indices
            = { disk.partial.rows[i].source_index : i \in DOMAIN disk.partial.rows }

\* a call of function `fn` has returned
Called(fn) == fn_call.fn = fn /\ fn_result # NoReturn

\* C12: the config store.  When _load_config has returned, a config file
\* exists; if its text is one json.loads rejects, the file is one of the files
\* that were there before the call and the value returned is `default`; if
\* the file was missing, it now holds `default` and `default` was returned.
ConfigDegradesToDefault ==
    Called("_load_config") =>
        /\ config_file.exists
        /\ ~json_loads(config_file.text).ok =>
              /\ config_file \in ConfigFiles
              /\ fn_result.value = fn_call.default
        /\ config_file \notin ConfigFiles =>
              /\ load_json(config_file) = fn_call.default
              /\ fn_result.value = fn_call.default

\* C13: repair of malformed oracle text.  repair_json returns the mapping
\* {detailed_service: Art, service_bucket: Art} for the text in which that
\* object, written with single quotes, stands between words of prose.
RepairsQuotedObjectInProse ==
    (Called("repair_json") /\ fn_call.text = R_PROSE_SINGLE) => fn_result.value = ArtMapping

\* C14: the score.  weighted_score times 100 is the sum over the five signals
\* of the signal's points (employees and revenue 0, 60 or 100; region, service
\* and industry 0 or 100) times its weight; it lies between 0 and 100, and is
\* 100 for employees >20000, revenue >1B, hq United States, bucket Art and an
\* industry match.
ScoreIsWeightedSum ==
    Called("weighted_score") =>
        LET e == IF fn_call.emp \in {"5000-20000", ">20000"} THEN 100
                 ELSE IF fn_call.emp \in {"50-500", "500-5000"} THEN 60 ELSE 0
            r == IF fn_call.rev \in {"500M-1B", ">1B"} THEN 100
                 ELSE IF fn_call.rev = "50M-500M" THEN 60 ELSE 0
            g == IF \E region \in GOOD_REGIONS : Contains(region, Lower(fn_call.hq)) THEN 100 ELSE 0
            v == IF fn_call.bucket \in {"Art", "Co-Dev", "Full"} THEN 100 ELSE 0
            i == IF fn_call.industry_ok THEN 100 ELSE 0
        IN  /\ fn_result.value = e * 25 + r * 25 + g * 20 + v * 15 + i * 15
            /\ fn_result.value \in 0..(100 * 100)
            /\ (/\ fn_call.emp = ">20000"
                /\ fn_call.rev = ">1B"
                /\ fn_call.hq = <<"U","n","i","t","e","d"," ","S","t","a","t","e","s">>
                /\ fn_call.bucket = "Art"
                /\ fn_call.industry_ok) => fn_result.value = 100 * 100

\* C14 witness: the call with all five signals at their maximum has returned 100
AllSignalsMaxOut ==
    /\ Called("weighted_score")
    /\ fn_call.emp = ">20000"
    /\ fn_call.rev = ">1B"
    /\ fn_call.hq = <<"U","n","i","t","e","d"," ","S","t","a","t","e","s">>
    /\ fn_call.bucket = "Art"
    /\ fn_call.industry_ok
    /\ fn_result.value = 100 * 100

\* C15: longest-key precedence.  When classify_service_rule has returned for a
\* title whose normalized form holds mapping keys, the key it took is one of
\* them, none of them is longer, and the value returned is that key's value;
\* for a title with "engineer" and "engine programmer" it took "engine
\* programmer".  Without a key in the title it returned None.
LongestKeySelected ==
    Called("classify_service_rule") =>
        LET t == normalize_title(fn_call.title)
            hits == { m \in Range(SERVICE_MAPPING) : Contains(m.key, t) }
        IN  IF hits = {} THEN fn_result.value = None
            ELSE /\ \E m \in hits :
                       /\ m.key = fn_result.key
                       /\ fn_result.value = [detailed_service |-> m.detailed,
                                             service_bucket |-> m.bucket]
                 /\ \A m \in hits : Len(m.key) <= Len(fn_result.key)
                 /\ fn_call.title = T_BOTH =>
                       fn_result.key = <<"e","n","g","i","n","e"," ","p","r","o","g","r","a","m","m","e","r">>

\* C15 witness: the title with both keys has been classified by the key
\* "engine programmer", which stands after "engineer" in the mapping
BothKeysMatched ==
    /\ Called("classify_service_rule")
    /\ fn_call.title = T_BOTH
    /\ Contains(<<"e","n","g","i","n","e","e","r">>, normalize_title(T_BOTH))
    /\ fn_result.key = <<"e","n","g","i","n","e"," ","p","r","o","g","r","a","m","m","e","r">>

\* C16: the legacy gate.  legacy_qualify returns Qualified when the employee
\* range and the revenue range are mid or large, the headquarters holds a good
\* region, the bucket is not None and the industry flag is true, and Not
\* Qualified otherwise; its confidence is 95 when Qualified and 75 otherwise.
LegacyGateNeedsAllFive ==
    Called("legacy_qualify") =>
        LET all_pass ==
                /\ fn_call.emp \in {"50-500", "500-5000", "5000-20000", ">20000"}
                /\ fn_call.rev \in {"50M-500M", "500M-1B", ">1B"}
                /\ \E region \in GOOD_REGIONS : Contains(region, Lower(fn_call.hq))
                /\ fn_call.bucket # "None"
                /\ fn_call.industry_pass
        IN  /\ fn_result.value.decision = (IF all_pass THEN "Qualified" ELSE "Not Qualified")
            /\ fn_result.value.confidence = (IF all_pass THEN 95 ELSE 75)

\* C16 witness: a call failing only the industry check has returned Not
\* Qualified with confidence 75
OnlyIndustryFails ==
    /\ Called("legacy_qualify")
    /\ fn_call.emp = "50-500"
    /\ fn_call.rev = ">1B"
    /\ fn_call.hq = <<"U","n","i","t","e","d"," ","S","t","a","t","e","s">>
    /\ fn_call.bucket = "Full"
    /\ ~fn_call.industry_pass
    /\ fn_result.value.decision = "Not Qualified"
    /\ fn_result.value.confidence = 75

\* a step in which process_dataframe or run_icp_engine_logic has taken a row
\* through the three lookups: the row has been recorded or has raised, the
\* call has returned or raised
Enriched ==
    /\ outcome' \in {"classified", "raised"}
    /\ \/ RowDone
       \/ IcpStep

\* what the step has produced: the row appended by process_dataframe, or the
\* result of run_icp_engine_logic
Produced == IF pc \in {"loop", "row"} THEN results'[Len(results')] ELSE ret'

\* C17: trusted stats precedence.  No step of a process puts a key of
\* TRUSTED_STATS into the company cache or changes the entry the cache holds
\* under one; and a row, or a call, whose company, lowercased and stripped, is
\* a key of TRUSTED_STATS goes through the three lookups without a prompt
\* about the company for the oracle, and the row it records, or the result it
\* returns, holds the headquarters, employees and revenue of the trusted
\* entry, whatever the company cache holds under that key.
TrustedStatsPrecedence ==
    [][/\ crashes' = crashes =>
              \A key \in DOMAIN TRUSTED_STATS :
                  IF key \in DOMAIN company_cache
                  THEN key \in DOMAIN company_cache' /\ company_cache'[key] = company_cache[key]
                  ELSE key \notin DOMAIN company_cache'
       /\ (Enriched /\ outcome' = "classified"
           /\ Strip(Lower(arg'.company)) \in DOMAIN TRUSTED_STATS) =>
           LET entry == TRUSTED_STATS[Strip(Lower(arg'.company))]
           IN  /\ \A i \in DOMAIN asked' : asked'[i][1] # "company"
               /\ Produced.hq = entry.hq_country
               /\ Produced.employees = entry.employees
               /\ Produced.revenue = entry.revenue]_vars

\* C17 witness: a row of Epic Games has been recorded with the trusted entry
\* while the company cache holds another entry under "epic games"
TrustedOverStaleCache ==
    /\ pc \in {"pause", "csv"}
    /\ outcome = "classified"
    /\ arg.company = C_EPIC
    /\ Strip(Lower(C_EPIC)) \in DOMAIN company_cache
    /\ company_cache[Strip(Lower(C_EPIC))] = DefaultCompany
    /\ results[Len(results)].hq = TRUSTED_STATS[Strip(Lower(C_EPIC))].hq_country
    /\ results[Len(results)].hq # DefaultCompany.hq_country

\* rows in ascending order of input row index
Ascending(rows) ==
    \A i, j \in DOMAIN rows : i < j => rows[i].source_index < rows[j].source_index

\* C18: output order.  At every point of every run, a resumed run included,
\* the result list, the partial table and the final table hold their rows in
\* ascending order of input row index.
OutputInInputOrder ==
    /\ Ascending(results)
    /\ Ascending(disk.partial.rows)
    /\ Ascending(disk.output.rows)

\* C19 as stated: per-row processing error.  The loop never again works on a
\* row that has raised (it meets its index only to pass it as already
\* processed), in this run or in a later one, and no row of the result list
\* has the index of a row that has raised.
RaisedRowNeverRetried ==
    [][/\ (RowStep /\ \E f \in failed : f[2] = pos - 1) => outcome' = "already"
       /\ \A f \in failed' : \A i \in DOMAIN results' : results'[i].source_index # f[2]]_vars

\* C19 amended: within a run, a row that raises is skipped.  The step in
\* which it raises leaves the result list and the processed set as they were,
\* the loop does not come back in that run to a row that raised in it, and
\* for the rest of the run the index of such a row is in neither; as the
\* index is not marked processed, only a later run can take the row again.
RaisedRowSkippedInItsRun ==
    [][/\ RowStep => <<crashes, pos - 1>> \notin failed
       /\ (RowStep /\ outcome' = "raised") =>
              /\ results' = results
              /\ processed' = processed
              /\ <<crashes, pos - 1>> \in failed'
       /\ \A f \in failed' : f[1] = crashes' =>
              /\ f[2] \notin processed'
              /\ \A i \in DOMAIN results' : results'[i].source_index # f[2]]_vars

\* C19 witness: a resumed run has returned rows and has left out a row that
\* raised in it, the same row that raised in the run before
RowRaisedAgainOnResume ==
    /\ pc = "done"
    /\ crashes = 1
    /\ results # <<>>
    /\ \E i \in DOMAIN df :
           /\ <<0, i - 1>> \in failed
           /\ <<1, i - 1>> \in failed
           /\ (i - 1) \notin processed
           /\ \A k \in DOMAIN results : results[k].source_index # i - 1

\* the partial table, the checkpoint and the cache files hold what the run holds
Persisted ==
    /\ disk.partial = to_csv(results)
    /\ disk.checkpoint = save_checkpoint(processed)
    /\ disk.classify = classify_cache
    /\ disk.company = company_cache
    /\ disk.industry = industry_cache

\* C20: periodic persistence.  When the loop is about to take the next row
\* and the row before it, however it ended (classified, short-circuited at
\* the gate, skipped as invalid or as duplicate), has brought the number of
\* processed rows to a multiple of SAVE_EVERY_N, the partial table, the
\* checkpoint and the cache files hold the results, the processed set and
\* the caches of the run; and they do when the run has returned.
SavedAtEveryMultiple ==
    /\ (/\ pc = "loop"
        /\ outcome \in {"classified", "nongame", "invalid", "duplicate"}
        /\ Cardinality(processed) % SAVE_EVERY_N = 0) => Persisted
    /\ pc = "done" => Persisted

\* C21: write-through caching, in a process whose calls do not overlap.  Each
\* step in which the three lookups of a row or of a call have returned leaves
\* the classify cache with the returned service under the normalized title,
\* the industry cache with the returned flag under the industry key and, for
\* a company outside TRUSTED_STATS, the company cache with the returned entry
\* under the lowercased company; the three cache files equal the caches; and
\* the same lookups on these caches return the same values with no prompt
\* for the oracle.  The same holds of a lookup called on its own.
WriteThroughCaches ==
    [][/\ (Enriched /\ outcome' = "classified") =>
           LET title == arg'.title
               company == arg'.company
               lower == Strip(Lower(company))
           IN  /\ NormTitle(title) \in DOMAIN classify_cache'
               /\ classify_cache'[NormTitle(title)].detailed_service = Produced.detailed_service
               /\ classify_cache'[NormTitle(title)].service_bucket = Produced.service_bucket
               /\ IndustryKey(company, title) \in DOMAIN industry_cache'
               /\ industry_cache'[IndustryKey(company, title)] = Produced.industry_match
               /\ lower \notin DOMAIN TRUSTED_STATS =>
                     /\ lower \in DOMAIN company_cache'
                     /\ company_cache'[lower].hq_country = Produced.hq
                     /\ company_cache'[lower].employees = Produced.employees
                     /\ company_cache'[lower].revenue = Produced.revenue
                     /\ get_company_info(company, company_cache')
                            = Found(company_cache'[lower])
               /\ disk'.classify = classify_cache'
               /\ disk'.company = company_cache'
               /\ disk'.industry = industry_cache'
               /\ classify_service(title, classify_cache')
                      = Found(classify_cache'[NormTitle(title)])
               /\ detect_industry(company, title, industry_cache')
                      = Found(Flag(industry_cache'[IndustryKey(company, title)]))
       /\ (crashes' = crashes /\ outcome' = "looked" /\ outcome # "looked") =>
               /\ disk'.classify = classify_cache'
               /\ disk'.company = company_cache'
               /\ disk'.industry = industry_cache'
               /\ job[MainThread].op = "classify_service" =>
                     /\ classify_cache'[NormTitle(arg'.title)] = ret'.val
                     /\ classify_service(arg'.title, classify_cache') = Found(ret'.val)
               /\ job[MainThread].op = "get_company_info" =>
                     /\ company_cache'[Strip(Lower(arg'.company))] = ret'.val
                     /\ get_company_info(arg'.company, company_cache') = Found(ret'.val)
               /\ job[MainThread].op = "detect_industry" =>
                     /\ industry_cache'[IndustryKey(arg'.company, arg'.title)] = ret'.val.flag
                     /\ detect_industry(arg'.company, arg'.title, industry_cache')
                            = Found(ret'.val)]_vars

\* C21 witness: without a client, a row of a company and a title no rule and
\* no list knows has been recorded from the fallback defaults, and the caches
\* and their files, empty when the process loaded them, hold the defaults
FallbackDefaultsCached ==
    /\ pc \in {"pause", "csv"}
    /\ outcome = "classified"
    /\ crashes = 0
    /\ oracle = "unconfigured"
    /\ cache0 = ColdCaches
    /\ arg.title = T_WRITER
    /\ arg.company = C_ACME
    /\ classify_cache[NormTitle(T_WRITER)] = DefaultService
    /\ company_cache[Strip(Lower(C_ACME))] = DefaultCompany
    /\ industry_cache[IndustryKey(C_ACME, T_WRITER)] = FALSE
    /\ disk.classify = classify_cache
    /\ disk.company = company_cache
    /\ disk.industry = industry_cache

\* C22: crash-safety point.  When the handler of a row that raised has run
\* and the loop is about to take the next row, the partial table is the
\* result list as to_csv writes it, the checkpoint is the processed set and
\* the three cache files are the caches; and a process termination at that
\* point, or inside the row the loop takes next, leaves the partial table and
\* the checkpoint as they are, the partial table holding a row for every row
\* of the result list.
SafeAfterRowError ==
    /\ []((pc = "loop" /\ outcome = "raised") => Persisted)
    /\ [][(pc \in {"loop", "row"} /\ <<crashes, pos - 2>> \in failed /\ pc' = "idle") =>
              /\ disk'.partial = disk.partial
              /\ disk'.checkpoint = disk.checkpoint
              /\ Len(read_csv(disk'.partial)) = Len(results)
              /\ \A i \in DOMAIN results :
                     read_csv(disk'.partial)[i].source_index = results[i].source_index]_vars

\* C22 witness: a row has raised after another row was recorded without a
\* save, and the handler has written the recorded row to the partial table
RecordedRowSavedByHandler ==
    /\ pc = "loop"
    /\ outcome = "raised"
    /\ crashes = 0
    /\ pos = 3
    /\ Len(results) = 1
    /\ disk.partial = to_csv(results)
    /\ disk.checkpoint = save_checkpoint(processed)
    /\ disk.output = NoTable

\* C23: output-domain closure.  Every result a lookup of the three has
\* produced, as process_dataframe appends it and as run_icp_engine_logic
\* returns it, has its service bucket among Art, Co-Dev, Full and None, its
\* employees among the six ranges of the prompt and Unknown, and its revenue
\* among the five ranges of the prompt and Unknown.
OutputsWithinDomains ==
    [][(Enriched /\ outcome' = "classified") =>
          /\ Produced.service_bucket \in Buckets
          /\ Produced.employees \in EmployeeRanges
          /\ Produced.revenue \in RevenueRanges]_vars

\* C24: the two-stage decision collapses to the score test.  With the
\* default weights, the threshold 75 and a service bucket among Art, Co-Dev,
\* Full and None, decide returns Qualified exactly when the weighted score is
\* 75 or more: inputs that pass all five legacy checks score 80 or more, and
\* inputs that fail two or more of them score 70 or less and are Not Qualified.
DecisionIsScoreTest ==
    (dec # NoReturn /\ threshold = SCORE_THRESHOLD /\ inputs.bucket \in Buckets) =>
        LET score == weighted_score(inputs.emp, inputs.rev, inputs.hq, inputs.bucket,
                                    inputs.industry_pass)
            checks == LegacyChecks(inputs.bucket, inputs.hq, inputs.emp, inputs.rev,
                                   inputs.industry_pass)
            failures == Cardinality({ i \in 1..5 : ~checks[i] })
        IN  /\ dec.score = score
            /\ dec.decision = "Qualified" <=> score >= 7500
            /\ failures = 0 => score >= 8000
            /\ failures >= 2 => score <= 7000 /\ dec.decision = "Not Qualified"

\* C24 witness: the two largest size ranges and a good region with the
\* service and the industry checks failed score exactly 70, Not Qualified
TwoFailuresScoreSeventy ==
    /\ dec # NoReturn
    /\ threshold = SCORE_THRESHOLD
    /\ inputs.bucket = "None"
    /\ ~inputs.industry_pass
    /\ inputs.emp = ">20000"
    /\ inputs.rev = ">1B"
    /\ InGoodRegion(inputs.hq)
    /\ dec.score = 7000
    /\ dec.decision = "Not Qualified"

\* C25: no duplicate output rows across resumes.  Whatever runs of
\* process_dataframe on the same table were interrupted, at whatever point,
\* and resumed from the checkpoint and the partial table then on disk, no
\* source row index is held by more than one row of the results.
NoIndexTwice ==
    \A i, j \in DOMAIN results :
        (i # j /\ results[i].source_index # NaNNumber) =>
            results[i].source_index # results[j].source_index

\* C26: the lock discipline of rate_limited_groq.  Under every interleaving
\* of its callers CALLS_IN_WINDOW never exceeds RPM_LIMIT; it and
\* WINDOW_START change only in the step of a thread that takes the free lock
\* or of the thread that holds it; a thread that sleeps for the window reset
\* holds the lock, and while it does no other thread gets past the lock;
\* and a lock that is held is released again.
RateLockDiscipline ==
    /\ [](CALLS_IN_WINDOW <= RPM_LIMIT)
    /\ [](\A t \in Callers : caller[t].pc = "sleeping" => RATE_LOCK = t)
    /\ [][(CALLS_IN_WINDOW' # CALLS_IN_WINDOW \/ WINDOW_START' # WINDOW_START) =>
             \E t \in Callers :
                 \/ RATE_LOCK = "free" /\ caller[t].pc = "acquire" /\ caller'[t].pc # "acquire"
                 \/ RATE_LOCK = t /\ caller[t].pc = "sleeping" /\ caller'[t].pc = "send"
                    /\ CALLS_IN_WINDOW' = 1 /\ WINDOW_START' = clock /\ RATE_LOCK' = "free"]_vars
    /\ [][(RATE_LOCK \in Callers) =>
             (\A u \in Callers \ {RATE_LOCK} :
                 caller[u].pc = "acquire" => caller'[u].pc = "acquire")]_vars
    /\ \A t \in Callers : (RATE_LOCK = t) ~> (RATE_LOCK = "free")

\* C26 witness: the window is exhausted, one thread sleeps for its reset
\* holding the lock and the other waits for the lock
SleeperHoldsLockOtherWaits ==
    /\ CALLS_IN_WINDOW = RPM_LIMIT
    /\ RATE_LOCK = "t1"
    /\ caller["t1"].pc = "sleeping"
    /\ caller["t1"].wake > clock
    /\ caller["t2"].pc = "acquire"

\* the indices a run that starts on the files d takes as processed: those of
\* the checkpoint, and those of the partial table when none is missing
PersistedIndices(d) ==
    load_checkpoint(d.checkpoint)
    \cup (IF d.partial.exists /\ ~IndexColumnRaises(read_csv(d.partial))
          THEN { read_csv(d.partial)[i].source_index : i \in DOMAIN d.partial.rows }
          ELSE {})

\* C27 as stated, its last part: every row that was classified,
\* short-circuited or skipped is never attempted again.  A run attempts the
\* rows whose index is outside the checkpoint and the partial table it starts
\* from, so when a process ends every index of its processed set is in one
\* of the two.
ProcessedRowsNeverAttemptedAgain ==
    [][(pc # "idle" /\ pc' = "idle") => processed \subseteq PersistedIndices(disk)]_vars

\* C27 amended: the step in which a row raises leaves the processed set and
\* the seen-URL set as they were, and neither that step nor the save of the
\* handler puts the index of the row in the checkpoint; a run starts with the
\* indices of the checkpoint and of the partial table as processed (of the
\* checkpoint alone when the _source_index column of the partial table holds
\* a missing value), which leaves out the rows that raised in the run before;
\* and the loop passes a row exactly when its index is in the processed set,
\* so it attempts again the rows that raised and never a row whose index had
\* been persisted.
OnlyUnpersistedRowsAttempted ==
    [][/\ (RowStep /\ outcome' = "raised") =>
              /\ processed' = processed
              /\ seen_urls' = seen_urls
              /\ (pos - 1) \notin processed'
              /\ (pos - 1) \notin load_checkpoint(disk'.checkpoint)
       /\ (pc = "ckpt" /\ pc' = "caches" /\ phase = "error") =>
              /\ disk'.checkpoint = save_checkpoint(processed)
              /\ (pos - 1) \notin load_checkpoint(disk'.checkpoint)
       /\ (pc = "idle" /\ pc' = "loop") =>
              /\ processed' = PersistedIndices(disk)
              /\ \A f \in failed : f[1] = crashes - 1 => f[2] \notin processed'
       /\ RowStep =>
              /\ outcome' = "already" <=> (pos - 1) \in processed
              /\ (pos - 1) \in PersistedIndices(disk) => outcome' = "already"]_vars

\* C27 witness: in a resumed run the first row, whose index the checkpoint
\* held, has been passed, and the second row, which raised in the run before
\* and whose index the checkpoint does not hold, has been classified
RaisedRowClassifiedOnResume ==
    /\ crashes = 1
    /\ pc = "csv"
    /\ pos = 2
    /\ outcome = "classified"
    /\ <<0, 1>> \in failed
    /\ 0 \in load_checkpoint(disk.checkpoint)
    /\ 1 \notin load_checkpoint(disk.checkpoint)
    /\ processed = {0, 1}
====
